---- MODULE Spec2Model ----
(***************************************************************************)
(* Checkpoint persistence of the conversation agents.                      *)
(*                                                                         *)
(*  - PickleRedisSaver (core/persistence.py): the cache-backed store. A    *)
(*    snapshot lives under the key "checkpoint:<thread>:<id>", the latest  *)
(*    pointer under "checkpoint_latest:<thread>"; put issues two separate  *)
(*    SET commands, so other clients of the Redis server (and a crash of   *)
(*    the writer) can fall between them.                                   *)
(*  - delete_chat_history (server.py): the hard delete of a thread from    *)
(*    the three tables of the Postgres checkpointer, in one transaction.   *)
(*  - The graph run around the store: every turn loads the thread's latest *)
(*    checkpoint, runs, and puts a new checkpoint whose config carries the *)
(*    loaded checkpoint id. add_routes (server.py) starts a run for every  *)
(*    request; nothing orders the requests of one thread.                  *)
(***************************************************************************)
EXTENDS Integers, Sequences, FiniteSets, TLC

\* ------------------------------------------------------------------ bounds
\* Concurrent runs (requests in flight / clients of the Redis server).
NumProcs == 2
\* Checkpoint ids generated over a behaviour (each put consumes one).
MaxId == 2
\* Checkpoints the student agent writes to Postgres over a behaviour.
MaxPgId == 2
Procs == 1..NumProcs

\* Thread ids the callers use. They are opaque strings chosen by the caller
\* (header / query parameter), so one of them contains the key separator.
Threads == {"t1", "t1:x"}

\* Python's None for the string-valued entries of a config.
None == "<None>"
\* Python's None where an object (bytes, a tuple, a dict) is expected.
NoneObj == [none |-> TRUE]

\* The n-th checkpoint id. LangGraph draws the ids (uuid6, time ordered, made
\* of hex digits and dashes): fresh for every checkpoint, never containing ":".
CkptId(n) == "c" \o ToString(n)
AllIds == {CkptId(n) : n \in 1..MaxId}
\* The ids of the checkpoints written to Postgres, drawn the same way.
PgId(n) == "p" \o ToString(n)

VARIABLES
    store,      \* the Redis keyspace: key -> stored bytes
    pc,         \* per run: "idle", "loaded" (parent read), "snapshot_written"
    turn,       \* per run: config of its put, state it computed, checkpoint being put
    nextId,     \* number of checkpoint ids written to the cache-backed store
    pgNextId,   \* number of checkpoint ids written to Postgres
    lastPut,    \* per thread: the tuple written by the most recent completed put
    overlap,    \* per thread: two turns of the thread were ever in flight together
    lastOp,     \* the operation performed by the last step
    pgTables,   \* the Postgres checkpointer's tables
    server,     \* the server process: its phase, its module names, its routes
    objects,    \* the compiled graph objects: object id -> its attributes
    memory,     \* the checkpoints held by the MemorySaver placeholder
    serving,    \* per agent: the run a route is serving (its thread, its checkpointer)
    grun,       \* the graph run of the scheduler: graph, status, superstep
    gstate,     \* the channel values (the state) of the graph run
    tasks,      \* the tasks of the current superstep: step -> status and update
    order,      \* the steps of the current superstep in the order they finished
    runs,       \* per step: how often it has started in this run
    db          \* the relational store: requirements and their tag relations

\* the variables of the checkpoint stores
storeVars == <<store, pc, turn, nextId, pgNextId, lastPut, overlap, pgNextId, pgTables>>
\* the variables of the server process and its compiled graphs
swapVars == <<server, objects, memory, serving>>
\* the variables of a graph run
graphVars == <<grun, gstate, tasks, order, runs, db>>

vars == <<storeVars, lastOp, swapVars, graphVars>>

\* ------------------------------------------------------- python / redis
\* dict.get(key): the value, or None when the key is absent.
DictGet(d, k) == IF k \in DOMAIN d THEN d[k] ELSE None

\* Truth value of an optional string: None and "" are falsy.
Truthy(x) == x # None /\ x # ""

\* A "configurable" dict; an argument equal to None leaves the key out.
Configurable(t, c) ==
    IF t = None
    THEN IF c = None THEN [k \in {} |-> None] ELSE [checkpoint_id |-> c]
    ELSE IF c = None THEN [thread_id |-> t] ELSE [thread_id |-> t, checkpoint_id |-> c]

\* pickle.dumps / pickle.loads
PickleDumps(obj) == [pickle |-> obj]
PickleLoads(data) == data.pickle

\* redis-py sends a str value as its utf-8 bytes; bytes.decode() reads them back.
Encode(s) == [bytes |-> s]
Decode(b) == b.bytes

\* client.get(key): the stored bytes, or None
RedisGet(st, key) == IF key \in DOMAIN st THEN st[key] ELSE NoneObj
\* client.set(key, value)
RedisSet(st, key, value) == [k \in DOMAIN st \cup {key} |-> IF k = key THEN value ELSE st[k]]

\* truth value of a bytes-or-None reply: None and b"" are falsy
BytesTruthy(b) == b # NoneObj /\ b # Encode("")

\* Faulty variant: the key leaves the checkpoint id out
CheckpointKey_m(thread_id, checkpoint_id) == "checkpoint:" \o thread_id

\* f"checkpoint:{thread_id}:{checkpoint_id}"
CheckpointKey(thread_id, checkpoint_id) == "checkpoint:" \o thread_id \o ":" \o checkpoint_id
\* f"checkpoint_latest:{thread_id}"
LatestKey(thread_id) == "checkpoint_latest:" \o thread_id

\* ------------------------------------------------------- PickleRedisSaver
\* Faulty variant: get_tuple without the "if data:" guards: pickle.loads(None) raises
GetTupleOn_m(st, configurable) ==
    LET thread_id == DictGet(configurable, "thread_id")
        checkpoint_id == DictGet(configurable, "checkpoint_id")
        loads(data) == IF data = NoneObj THEN [raise |-> "TypeError"] ELSE PickleLoads(data)
    IN  IF ~Truthy(thread_id) THEN NoneObj
        ELSE IF Truthy(checkpoint_id)
             THEN loads(RedisGet(st, CheckpointKey(thread_id, checkpoint_id)))
             ELSE LET latest_id == RedisGet(st, LatestKey(thread_id))
                  IN  IF BytesTruthy(latest_id)
                      THEN loads(RedisGet(st, CheckpointKey(thread_id, Decode(latest_id))))
                      ELSE NoneObj

\* get_tuple(config) evaluated on keyspace st
GetTupleOn(st, configurable) ==
    LET thread_id == DictGet(configurable, "thread_id")
        checkpoint_id == DictGet(configurable, "checkpoint_id")
    IN  IF ~Truthy(thread_id) THEN NoneObj
        ELSE IF Truthy(checkpoint_id)
             THEN LET data == RedisGet(st, CheckpointKey(thread_id, checkpoint_id))
                  IN  IF BytesTruthy(data) THEN PickleLoads(data) ELSE NoneObj
             ELSE LET latest_id == RedisGet(st, LatestKey(thread_id))
                  IN  IF BytesTruthy(latest_id)
                      THEN LET data == RedisGet(st, CheckpointKey(thread_id, Decode(latest_id)))
                           IN  IF BytesTruthy(data) THEN PickleLoads(data) ELSE NoneObj
                      ELSE NoneObj

GetTuple(configurable) == GetTupleOn(store, configurable)

\* Faulty variant: the tuple never records a parent
TupleData_m(configurable, checkpoint, metadata) ==
    [config |-> Configurable(configurable["thread_id"], checkpoint.id),
     checkpoint |-> checkpoint,
     metadata |-> metadata,
     parent_config |-> NoneObj,
     pending_writes |-> <<>>]

\* the CheckpointTuple put constructs
TupleData(configurable, checkpoint, metadata) ==
    LET thread_id == configurable["thread_id"]
        checkpoint_id == checkpoint.id
        parent_id == DictGet(configurable, "checkpoint_id")
    IN  [config |-> Configurable(thread_id, checkpoint_id),
         checkpoint |-> checkpoint,
         metadata |-> metadata,
         parent_config |-> IF Truthy(parent_id) THEN Configurable(thread_id, parent_id) ELSE NoneObj,
         pending_writes |-> <<>>]

\* Faulty variant: put moves the latest pointer first
PutSnapshotWrite_m(st, configurable, checkpoint, metadata) ==
    RedisSet(st, LatestKey(configurable["thread_id"]), Encode(checkpoint.id))

\* put(config, checkpoint, metadata, new_versions), first write:
\* client.set(key, pickle.dumps(tuple_data)) on keyspace st
PutSnapshotWrite(st, configurable, checkpoint, metadata) ==
    RedisSet(st, CheckpointKey(configurable["thread_id"], checkpoint.id),
             PickleDumps(TupleData(configurable, checkpoint, metadata)))

\* Faulty variant: the pointer is only set when the thread has none yet (SET NX)
PutLatestWrite_m(st, configurable, checkpoint) ==
    IF LatestKey(configurable["thread_id"]) \in DOMAIN st THEN st
    ELSE RedisSet(st, LatestKey(configurable["thread_id"]), Encode(checkpoint.id))

\* put, second write: client.set(f"checkpoint_latest:{thread_id}", checkpoint_id)
PutLatestWrite(st, configurable, checkpoint) ==
    RedisSet(st, LatestKey(configurable["thread_id"]), Encode(checkpoint.id))

\* ------------------------------------------------------------ the runs
\* metadata LangGraph attaches to the checkpoint of a finished step
Metadata == [source |-> "loop"]

NoCheckpoint == [id |-> None, messages |-> 0]
IdleTurn == [config |-> Configurable(None, None), messages |-> 0, checkpoint |-> NoCheckpoint]
\* The record of a step: operation, thread, checkpoint id, how it ended as its
\* caller sees it, and for a put whether the store refused the write.
Op(op, thread, ckpt, status, value) ==
    [op |-> op, thread |-> thread, ckpt |-> ckpt, status |-> status, value |-> value]

InFlight(p) == pc[p] # "idle"
ThreadOf(p) == DictGet(turn[p].config, "thread_id")

\* ------------------------------------- the other subsystems at their start
\* the agents server.py serves, by the name of their route
Agents == {"student", "publisher"}

\* The process after the import of server.py: main_agent compiled master_app
\* with checkpointer_placeholder (a MemorySaver), publisher_main_agent compiled
\* publisher_main_app with the checkpointer it could build, server.py bound
\* the two objects to student_agent and publisher_agent, and add_routes
\* registered them under /student and /publisher.
ImportedServer ==
    [phase |-> "imported",
     names |-> [student |-> 1, publisher |-> 2],
     routes |-> [student |-> 1, publisher |-> 2]]

ImportedObjects(publisher_checkpointer) ==
    [o \in {1, 2} |->
        IF o = 1 THEN [workflow |-> "master", checkpointer |-> "MemorySaver"]
        ELSE [workflow |-> "publisher_main", checkpointer |-> publisher_checkpointer]]

NotServing == [a \in Agents |-> NoneObj]

\* no graph run
NoRun == [graph |-> None, status |-> "idle", step |-> 0]
EmptyDict == [k \in {} |-> NoneObj]
EmptyDb == [project_requirement |-> {}, project_requirement_tag1 |-> {}, project_requirement_tag2 |-> {}]

SwapIdle ==
    /\ server = ImportedServer
    /\ objects = ImportedObjects("PickleRedisSaver")
    /\ memory = {}
    /\ serving = NotServing

GraphIdle ==
    /\ grun = NoRun
    /\ gstate = EmptyDict
    /\ tasks = EmptyDict
    /\ order = <<>>
    /\ runs = EmptyDict
    /\ db = EmptyDb

StoresEmpty ==
    /\ store = [k \in {} |-> NoneObj]
    /\ pc = [p \in Procs |-> "idle"]
    /\ turn = [p \in Procs |-> IdleTurn]
    /\ nextId = 0
    /\ pgNextId = 0
    /\ lastPut = [t \in Threads |-> NoneObj]
    /\ overlap = [t \in Threads |-> FALSE]
    /\ lastOp = Op("init", None, None, "none", NoneObj)
    /\ pgTables = [checkpoints |-> {}, checkpoint_blobs |-> {}, checkpoint_writes |-> {}]

Init ==
    /\ SwapIdle
    /\ GraphIdle
    /\ store = [k \in {} |-> NoneObj]
    /\ pc = [p \in Procs |-> "idle"]
    /\ turn = [p \in Procs |-> IdleTurn]
    /\ nextId = 0
    /\ pgNextId = 0
    /\ lastPut = [t \in Threads |-> NoneObj]
    /\ overlap = [t \in Threads |-> FALSE]
    /\ lastOp = Op("init", None, None, "none", NoneObj)
    /\ pgTables = [checkpoints |-> {}, checkpoint_blobs |-> {}, checkpoint_writes |-> {}]

\* A request for thread t starts a run: the graph loads the thread's latest
\* checkpoint (get_tuple with no checkpoint id); the loaded tuple's config,
\* which names that checkpoint, is the config of the run's put. The run
\* appends the turn's messages to the loaded state.
TurnStart(p, t) ==
    /\ pc[p] = "idle"
    /\ nextId < MaxId
    /\ LET saved == GetTuple(Configurable(t, None))
           config == IF saved = NoneObj THEN Configurable(t, None) ELSE saved.config
           messages == IF saved = NoneObj THEN 1 ELSE saved.checkpoint.messages + 1
       IN  turn' = [turn EXCEPT ![p] =
                       [config |-> config, messages |-> messages, checkpoint |-> NoCheckpoint]]
    /\ pc' = [pc EXCEPT ![p] = "loaded"]
    /\ overlap' = [overlap EXCEPT ![t] = @ \/ \E q \in Procs \ {p} : InFlight(q) /\ ThreadOf(q) = t]
    /\ lastOp' = Op("load", t, None, "returned", NoneObj)
    /\ UNCHANGED <<store, nextId, lastPut, pgNextId, pgTables>>
    /\ UNCHANGED <<swapVars, graphVars>>

\* Faulty variant: put catches the error of its first SET and goes on
PutSnapshot_m(p, ok) ==
    /\ pc[p] = "loaded"
    /\ nextId < MaxId
    /\ LET checkpoint == [id |-> CkptId(nextId + 1), messages |-> turn[p].messages]
           t == ThreadOf(p)
       IN  /\ store' = IF ok THEN PutSnapshotWrite(store, turn[p].config, checkpoint, Metadata)
                       ELSE store
           /\ nextId' = nextId + 1
           /\ turn' = [turn EXCEPT ![p].checkpoint = checkpoint]
           /\ pc' = [pc EXCEPT ![p] = "snapshot_written"]
           /\ lastOp' = Op("put", t, checkpoint.id, "writing", [fault |-> ~ok])
    /\ UNCHANGED <<lastPut, overlap, pgNextId, pgTables>>
    /\ UNCHANGED <<swapVars, graphVars>>

\* put up to and including its first SET. ok = FALSE: the SET raises (the
\* command was not applied); put has no handler, so the error leaves put
\* and the turn fails.
PutSnapshot(p, ok) ==
    /\ pc[p] = "loaded"
    /\ nextId < MaxId
    /\ LET checkpoint == [id |-> CkptId(nextId + 1), messages |-> turn[p].messages]
           t == ThreadOf(p)
       IN  IF ok
           THEN /\ store' = PutSnapshotWrite(store, turn[p].config, checkpoint, Metadata)
                /\ nextId' = nextId + 1
                /\ turn' = [turn EXCEPT ![p].checkpoint = checkpoint]
                /\ pc' = [pc EXCEPT ![p] = "snapshot_written"]
                /\ lastOp' = Op("put", t, checkpoint.id, "writing", [fault |-> FALSE])
           ELSE /\ turn' = [turn EXCEPT ![p] = IdleTurn]
                /\ pc' = [pc EXCEPT ![p] = "idle"]
                /\ lastOp' = Op("put", t, checkpoint.id, "raised", [fault |-> TRUE])
                /\ UNCHANGED <<store, nextId>>
    /\ UNCHANGED <<lastPut, overlap, pgNextId, pgTables>>
    /\ UNCHANGED <<swapVars, graphVars>>

\* the rest of put: the second SET and the return of the new config.
PutLatest(p, ok) ==
    /\ pc[p] = "snapshot_written"
    /\ LET t == ThreadOf(p)
           checkpoint == turn[p].checkpoint
       IN  IF ok
           THEN /\ store' = PutLatestWrite(store, turn[p].config, checkpoint)
                /\ lastPut' = [lastPut EXCEPT ![t] = TupleData(turn[p].config, checkpoint, Metadata)]
                /\ lastOp' = Op("put", t, checkpoint.id, "returned", [fault |-> FALSE])
           ELSE /\ lastOp' = Op("put", t, checkpoint.id, "raised", [fault |-> TRUE])
                /\ UNCHANGED <<store, lastPut>>
    /\ turn' = [turn EXCEPT ![p] = IdleTurn]
    /\ pc' = [pc EXCEPT ![p] = "idle"]
    /\ UNCHANGED <<nextId, overlap, pgNextId, pgTables>>
    /\ UNCHANGED <<swapVars, graphVars>>

\* The process of a run dies (kill, power loss); Redis keeps what was written.
Crash(p) ==
    /\ InFlight(p)
    /\ lastOp' = Op("crash", ThreadOf(p), turn[p].checkpoint.id, pc[p], NoneObj)
    /\ turn' = [turn EXCEPT ![p] = IdleTurn]
    /\ pc' = [pc EXCEPT ![p] = "idle"]
    /\ UNCHANGED <<store, nextId, lastPut, overlap, pgNextId, pgTables>>
    /\ UNCHANGED <<swapVars, graphVars>>

\* configs a reader passes to get_tuple: thread id and checkpoint id each
\* present, empty or missing; a checkpoint id is one LangGraph generated.
GetConfigs ==
    {Configurable(t, c) : t \in Threads \cup {"", None},
                          c \in {CkptId(n) : n \in 1..nextId} \cup {"", None}}

\* how a call of get_tuple ended, as its caller sees it
GetStatus(result) ==
    IF result = NoneObj THEN "not_found"
    ELSE IF "raise" \in DOMAIN result THEN "raised" ELSE "found"

\* Faulty variant: the read consumes the latest pointer (GETDEL)
Get_m(configurable) ==
    /\ LET result == GetTuple(configurable)
           thread_id == DictGet(configurable, "thread_id")
           checkpoint_id == DictGet(configurable, "checkpoint_id")
       IN  /\ lastOp' = Op("get", thread_id, IF Truthy(checkpoint_id) THEN "by_id" ELSE checkpoint_id,
                           GetStatus(result), NoneObj)
           /\ store' = IF Truthy(thread_id) /\ ~Truthy(checkpoint_id)
                       THEN [k \in DOMAIN store \ {LatestKey(thread_id)} |-> store[k]]
                       ELSE store
    /\ UNCHANGED <<pc, turn, nextId, lastPut, overlap, pgNextId, pgTables>>
    /\ UNCHANGED <<swapVars, graphVars>>

\* get_tuple(config) called by a reader
Get(configurable) ==
    /\ LET result == GetTuple(configurable)
           thread_id == DictGet(configurable, "thread_id")
           checkpoint_id == DictGet(configurable, "checkpoint_id")
       IN  lastOp' = Op("get", thread_id, IF Truthy(checkpoint_id) THEN "by_id" ELSE checkpoint_id,
                        GetStatus(result), NoneObj)
    /\ UNCHANGED <<store, pc, turn, nextId, lastPut, overlap, pgNextId, pgTables>>
    /\ UNCHANGED <<swapVars, graphVars>>

\* ------------------------------------------------- the Postgres checkpointer
\* The student agent runs on AsyncPostgresSaver (swapped in by lifespan). Its
\* tables hold rows keyed by thread_id; a row here is (thread_id, checkpoint_id).
Row(thread_id, checkpoint_id) == [thread_id |-> thread_id, checkpoint_id |-> checkpoint_id]

\* A completed turn of the student agent on thread t: the saver records the
\* new checkpoint, its channel blobs and the writes of the turn's tasks.
PgTurn(t) ==
    /\ pgNextId < MaxPgId
    /\ pgNextId' = pgNextId + 1
    /\ LET row == Row(t, PgId(pgNextId + 1))
       IN  pgTables' = [checkpoints |-> pgTables.checkpoints \cup {row},
                        checkpoint_blobs |-> pgTables.checkpoint_blobs \cup {row},
                        checkpoint_writes |-> pgTables.checkpoint_writes \cup {row}]
    /\ lastOp' = Op("pg_put", t, PgId(pgNextId + 1), "returned", NoneObj)
    /\ UNCHANGED <<store, pc, turn, nextId, lastPut, overlap>>
    /\ UNCHANGED <<swapVars, graphVars>>

\* student_agent.aget_state(config) of get_chat_history: the checkpoint of
\* the thread with the greatest id (ids are time ordered), or None.
PgGetTupleOn(tables, thread_id) ==
    LET ns == {n \in 1..MaxPgId : Row(thread_id, PgId(n)) \in tables.checkpoints}
    IN  IF ns = {} THEN NoneObj
        ELSE Row(thread_id, PgId(CHOOSE n \in ns : \A m \in ns : m <= n))

PgGetTuple(thread_id) == PgGetTupleOn(pgTables, thread_id)

\* every row the three tables hold for a thread
PgRowsOf(tables, thread_id) ==
    {r \in tables.checkpoints \cup tables.checkpoint_blobs \cup tables.checkpoint_writes :
        r.thread_id = thread_id}

\* Faulty variant: DELETE FROM <table> without the WHERE clause
SqlDelete_m(table, thread_id) == {}

\* DELETE FROM <table> WHERE thread_id = %s
SqlDelete(table, thread_id) == {r \in table : r.thread_id # thread_id}

\* The three DELETE statements of delete_chat_history run in order on the
\* transaction's view; statement failAt (1..3) raises. The result is the
\* view the transaction reached and whether it got through.
DeleteStatements(tables, thread_id, failAt) ==
    LET t1 == IF failAt = 1 THEN tables
              ELSE [tables EXCEPT !.checkpoints = SqlDelete(@, thread_id)]
        t2 == IF failAt \in {1, 2} THEN t1
              ELSE [t1 EXCEPT !.checkpoint_blobs = SqlDelete(@, thread_id)]
        t3 == IF failAt \in {1, 2, 3} THEN t2
              ELSE [t2 EXCEPT !.checkpoint_writes = SqlDelete(@, thread_id)]
    IN  [view |-> t3, raised |-> failAt \in {1, 2, 3}]

\* Faulty variant: no transaction block: each DELETE is committed on its own
Transaction_m(tables, run) == run.view

\* async with conn.transaction(): commit when the block ends normally, roll
\* back (and re-raise) when it raises.
Transaction(tables, run) == IF run.raised THEN tables ELSE run.view

\* failAt values: 0 nothing fails, 1..3 that DELETE raises, 4 pool.connection() raises
FailPoints == 0..4

\* DELETE /student/history/{thread_id}
DeleteChatHistory(thread_id, failAt) ==
    /\ LET run == IF failAt = 4 THEN [view |-> pgTables, raised |-> TRUE]
                  ELSE DeleteStatements(pgTables, thread_id, failAt)
       IN  /\ pgTables' = Transaction(pgTables, run)
           /\ lastOp' = Op("delete", thread_id, None,
                           IF run.raised THEN "http_500" ELSE "success", NoneObj)
    /\ UNCHANGED <<store, pc, turn, nextId, pgNextId, lastPut, overlap>>
    /\ UNCHANGED <<swapVars, graphVars>>

\* ------------------------------------------------ the checkpointer swap
\* the AsyncPostgresSaver lifespan builds on the opened pool
RealCheckpointer == "AsyncPostgresSaver"

\* the checkpointers the publisher graph can have been compiled with: the
\* PickleRedisSaver, or the MemorySaver fallback when building it raised
PublisherPlaceholders == {"PickleRedisSaver", "MemorySaver"}

\* Faulty variant: lifespan compiles the two graphs again with the real
\* checkpointer and binds the new objects to the names; the routes keep the
\* objects add_routes was given
LifespanSwap_m(srv, objs, real_checkpointer) ==
    [server |-> [srv EXCEPT !.names = [student |-> 3, publisher |-> 4]],
     objects |-> [o \in DOMAIN objs \cup {3, 4} |->
                    IF o \in DOMAIN objs THEN objs[o]
                    ELSE [workflow |-> objs[o - 2].workflow, checkpointer |-> real_checkpointer]]]

\* student_agent.checkpointer = real_checkpointer
\* publisher_agent.checkpointer = real_checkpointer
LifespanSwap(srv, objs, real_checkpointer) ==
    LET swapped1 == [objs EXCEPT ![srv.names.student].checkpointer = real_checkpointer]
        swapped2 == [swapped1 EXCEPT ![srv.names.publisher].checkpointer = real_checkpointer]
    IN  [server |-> srv, objects |-> swapped2]

\* The startup half of lifespan: open the pool, build the AsyncPostgresSaver,
\* swap it into both compiled graphs; the server serves requests once it is
\* through. open_pool raising (ok = FALSE) ends the startup: nothing is served.
Lifespan(ok) ==
    /\ server.phase = "imported"
    /\ IF ok
       THEN LET swap == LifespanSwap(server, objects, RealCheckpointer)
            IN  /\ server' = [swap.server EXCEPT !.phase = "serving"]
                /\ objects' = swap.objects
                /\ lastOp' = Op("lifespan", None, None, "serving", NoneObj)
       ELSE /\ server' = [server EXCEPT !.phase = "startup_failed"]
            /\ lastOp' = Op("lifespan", None, None, "raised", NoneObj)
            /\ UNCHANGED objects
    /\ UNCHANGED <<storeVars, memory, serving, graphVars>>

\* The shutdown half of lifespan, run when the server stops (after the
\* requests in flight are through): close_pool.
LifespanShutdown ==
    /\ server.phase = "serving"
    /\ \A a \in Agents : serving[a] = NoneObj
    /\ server' = [server EXCEPT !.phase = "closed"]
    /\ lastOp' = Op("lifespan", None, None, "closed", NoneObj)
    /\ UNCHANGED <<storeVars, objects, memory, serving, graphVars>>

\* the checkpoints a checkpointer holds for a thread
SaverHas(checkpointer, thread_id) ==
    IF checkpointer = "AsyncPostgresSaver" THEN PgGetTuple(thread_id) # NoneObj
    ELSE IF checkpointer = "PickleRedisSaver" THEN GetTuple(Configurable(thread_id, None)) # NoneObj
    ELSE \E r \in memory : r.thread_id = thread_id

\* the runs the routes are serving
InService == Cardinality({a \in Agents : serving[a] # NoneObj})

\* A request on the route of agent a for thread t: the route invokes the
\* object add_routes was given; the run takes that object's checkpointer
\* attribute as it is when the run starts and loads the thread's checkpoint.
ServeStart(a, t) ==
    /\ server.phase = "serving"
    /\ serving[a] = NoneObj
    /\ pgNextId + InService < MaxPgId /\ nextId + InService < MaxId
    /\ LET checkpointer == objects[server.routes[a]].checkpointer
       IN  /\ serving' = [serving EXCEPT ![a] = [thread_id |-> t, checkpointer |-> checkpointer]]
           /\ lastOp' = Op("aget_tuple", t, None,
                           IF SaverHas(checkpointer, t) THEN "found" ELSE "not_found",
                           [agent |-> a, checkpointer |-> checkpointer])
    /\ UNCHANGED <<storeVars, server, objects, memory, graphVars>>

\* The run of agent a ends: it puts its checkpoint to the checkpointer it
\* started with.
ServeEnd(a) ==
    /\ serving[a] # NoneObj
    /\ LET t == serving[a].thread_id
           checkpointer == serving[a].checkpointer
           pg == checkpointer = "AsyncPostgresSaver"
           redis == checkpointer = "PickleRedisSaver"
           checkpoint_id == IF pg THEN PgId(pgNextId + 1) ELSE CkptId(nextId + 1)
           checkpoint == [id |-> checkpoint_id, messages |-> 1]
           row == Row(t, checkpoint_id)
       IN  /\ pgNextId' = IF pg THEN pgNextId + 1 ELSE pgNextId
           /\ pgTables' = IF pg
                          THEN [checkpoints |-> pgTables.checkpoints \cup {row},
                                checkpoint_blobs |-> pgTables.checkpoint_blobs \cup {row},
                                checkpoint_writes |-> pgTables.checkpoint_writes \cup {row}]
                          ELSE pgTables
           /\ nextId' = IF pg THEN nextId ELSE nextId + 1
           /\ store' = IF redis
                       THEN PutLatestWrite(
                                PutSnapshotWrite(store, Configurable(t, None), checkpoint, Metadata),
                                Configurable(t, None), checkpoint)
                       ELSE store
           /\ memory' = IF ~pg /\ ~redis THEN memory \cup {row} ELSE memory
           /\ lastOp' = Op("aput", t, checkpoint_id, "returned",
                           [agent |-> a, checkpointer |-> checkpointer])
    /\ serving' = [serving EXCEPT ![a] = NoneObj]
    /\ UNCHANGED <<pc, turn, lastPut, overlap, server, objects, graphVars>>

\* GET /student/history/{thread_id}: student_agent.aget_state(config) reads
\* through the object the name student_agent is bound to.
GetChatHistory(t) ==
    /\ server.phase = "serving"
    /\ LET checkpointer == objects[server.names.student].checkpointer
       IN  lastOp' = Op("aget_state", t, None,
                        IF SaverHas(checkpointer, t) THEN "found" ELSE "not_found",
                        [agent |-> "student", checkpointer |-> checkpointer])
    /\ UNCHANGED <<storeVars, swapVars, graphVars>>

\* ------------------------------------------------------ python values
\* A str is the sequence of its characters. str.lower() on the characters
\* the texts below are made of.
LowerChar(c) ==
    CASE c = "A" -> "a"
      [] c = "B" -> "b"
      [] c = "X" -> "x"
      [] OTHER -> c
StrLower(s) == [i \in 1..Len(s) |-> LowerChar(s[i])]

\* the characters str.strip() removes
Whitespace == {" "}

RECURSIVE StrLstrip(_)
StrLstrip(s) ==
    IF s # <<>> /\ Head(s) \in Whitespace THEN StrLstrip(Tail(s)) ELSE s

RECURSIVE StrRstrip(_)
StrRstrip(s) ==
    IF s # <<>> /\ s[Len(s)] \in Whitespace THEN StrRstrip(SubSeq(s, 1, Len(s) - 1)) ELSE s

\* s.strip()
StrStrip(s) == StrRstrip(StrLstrip(s))

\* s[:n]
Slice(s, n) == SubSeq(s, 1, IF Len(s) < n THEN Len(s) ELSE n)

\* the text made of n times the character c
Rep(c, n) == [i \in 1..n |-> c]

\* d.get(k, default) on a dict given as a function
DictGetD(d, k, default) == IF k \in DOMAIN d THEN d[k] ELSE default

\* d[k] = v
DictSet(d, k, v) == [x \in DOMAIN d \cup {k} |-> IF x = k THEN v ELSE d[x]]

\* A dict keyed by "id" is kept as the sequence of its values in insertion
\* order. The position of the value with id pid, 0 when there is none.
IndexOfId(cands, pid) ==
    IF \E i \in 1..Len(cands) : cands[i]["id"] = pid
    THEN CHOOSE i \in 1..Len(cands) : cands[i]["id"] = pid
    ELSE 0

\* Faulty variant: the list is returned in the order it was built
SortedDesc_m(list, key) == list

\* sorted(list, key=lambda x: x[key], reverse=True): stable, so elements with
\* equal keys keep their order
RECURSIVE SortedDesc(_, _)
SortedDesc(list, key) ==
    IF list = <<>> THEN <<>>
    ELSE LET rest == SortedDesc(SubSeq(list, 1, Len(list) - 1), key)
             x == list[Len(list)]
             \* x goes after every element whose key is not smaller
             n == Cardinality({i \in 1..Len(rest) : rest[i][key] >= x[key]})
         IN  SubSeq(rest, 1, n) \o <<x>> \o SubSeq(rest, n + 1, Len(rest))

\* every order in which a query without ORDER BY can return a set of rows
RowOrders(rowset) ==
    LET n == Cardinality(rowset)
    IN  {rows \in [1..n -> rowset] : \A i, j \in 1..n : rows[i] = rows[j] => i = j}

\* ------------------------------------------------- search_projects_by_tags
\* the statuses the recall queries accept
StatusAllowed == {"under_review", "in_progress", "completed"}

\* the rows search_projects_by_tags returns at most
TagLimit == 20

\* SELECT r.id, r.title, r.status, r.description FROM project_requirement r
\* JOIN <junction> rt ON r.id = rt.requirement_id
\* WHERE rt.<column> IN (<tag_ids>) AND r.status IN (<allowed>):
\* one row per pair of a requirement and a junction row of it that matches.
\* The junction tables are those of the many-to-many fields tag1 and tag2
\* (written with req.tag1.set and req.tag2.set), which hold a pair once.
TagJoin(database, junction, column, tag_ids) ==
    {x \in [r : database.project_requirement, rt : junction] :
        /\ x.r.id = x.rt.requirement_id
        /\ \E n \in 1..Len(tag_ids) : x.rt[column] = tag_ids[n]
        /\ x.r.status \in StatusAllowed}

\* Faulty variant: a matching row sets the score to 1.0 instead of adding to it
RECURSIVE CountRows_m(_, _)
CountRows_m(candidates, rows) ==
    IF rows = <<>> THEN candidates
    ELSE LET row == Head(rows).r
             pid == row.id
             fresh == [id |-> pid, title |-> row.title, status |-> row.status,
                       description |-> row.description, score |-> 0, match_type |-> "tag"]
             cands == IF IndexOfId(candidates, pid) = 0 THEN Append(candidates, fresh)
                      ELSE candidates
             i == IndexOfId(cands, pid)
         IN  CountRows_m([cands EXCEPT ![i].score = 1], Tail(rows))

\* for row in rows: the candidate of the row's requirement is created with
\* score 0.0 when it is new, and its score goes up by 1.0
RECURSIVE CountRows(_, _)
CountRows(candidates, rows) ==
    IF rows = <<>> THEN candidates
    ELSE LET row == Head(rows).r
             pid == row.id
             fresh == [id |-> pid, title |-> row.title, status |-> row.status,
                       description |-> row.description, score |-> 0, match_type |-> "tag"]
             cands == IF IndexOfId(candidates, pid) = 0 THEN Append(candidates, fresh)
                      ELSE candidates
             i == IndexOfId(cands, pid)
         IN  CountRows([cands EXCEPT ![i].score = @ + 1], Tail(rows))

\* how a call of a tool ends: with the value it returns, or with an error
Returned(value) == [raised |-> FALSE, value |-> value]
Raised == [raised |-> TRUE, value |-> <<>>]

\* how a call of search_projects_by_tags can go wrong: nothing fails, the
\* interest query raises, the skill query raises, get_db_connection raises
TagFaults == {"none", "interest_query", "skill_query", "connection"}

\* search_projects_by_tags(interest_ids, skill_ids): every value the call can
\* return on the database (the rows of a query come in any order). An error
\* inside the try block is printed and the candidates counted so far are
\* returned; get_db_connection is called before the try block, so its error
\* leaves the function.
search_projects_by_tags(database, interest_ids, skill_ids, fault) ==
    IF fault = "connection" THEN {Raised}
    ELSE LET left == fault = "interest_query" /\ interest_ids # <<>>
             join1 == IF interest_ids = <<>> \/ left THEN {}
                      ELSE TagJoin(database, database.project_requirement_tag1,
                                   "tag1_id", interest_ids)
             join2 == IF skill_ids = <<>> \/ left \/ fault = "skill_query" THEN {}
                      ELSE TagJoin(database, database.project_requirement_tag2,
                                   "tag2_id", skill_ids)
         IN  {Returned(Slice(SortedDesc(CountRows(CountRows(<<>>, rows1), rows2), "score"),
                             TagLimit)) :
                 rows1 \in RowOrders(join1), rows2 \in RowOrders(join2)}

\* ------------------------------------------------------------ rerank_node
\* the characters of the content signature taken from the description
SignatureLen == 100
\* the entries of ranked_projects at most
RankedLimit == 15

\* Faulty variant: a candidate met again replaces the one met first
RECURSIVE Merge_m(_, _, _)
Merge_m(candidates, source_list, source_name) ==
    IF source_list = <<>> THEN candidates
    ELSE LET p == Head(source_list)
             i == IndexOfId(candidates, p["id"])
         IN  Merge_m(IF i = 0 THEN Append(candidates, p) ELSE [candidates EXCEPT ![i] = p],
                     Tail(source_list), source_name)

\* merge(source_list, source_name): a candidate met for the first time is
\* taken as it is; for one met before, the score of a semantic or keyword
\* entry is noted on the candidate already held
RECURSIVE Merge(_, _, _)
Merge(candidates, source_list, source_name) ==
    IF source_list = <<>> THEN candidates
    ELSE LET p == Head(source_list)
             i == IndexOfId(candidates, p["id"])
             merged ==
                 IF i = 0 THEN Append(candidates, p)
                 ELSE IF source_name = "semantic"
                      THEN [candidates EXCEPT ![i] = DictSet(@, "semantic_score", DictGetD(p, "score", 0))]
                 ELSE IF source_name = "keyword"
                      THEN [candidates EXCEPT ![i] = DictSet(@, "keyword_score", DictGetD(p, "score", 0))]
                 ELSE candidates
         IN  Merge(merged, Tail(source_list), source_name)

\* final_score of a merged candidate, in tenths:
\* (tag_score * 0.4) + (semantic_score * 0.4) + (keyword_score * 0.2)
FinalScore(data) ==
    LET source == DictGetD(data, "source", None)
        tag_score == IF source = "tag" THEN DictGetD(data, "score", 0) ELSE 0
        semantic_score == IF source = "semantic" THEN DictGetD(data, "score", 0)
                          ELSE DictGetD(data, "semantic_score", 0)
        keyword_score == IF source = "keyword" THEN DictGetD(data, "score", 0)
                         ELSE DictGetD(data, "keyword_score", 0)
    IN  (tag_score * 4) + (semantic_score * 4) + (keyword_score * 2)

\* signature = f"{title.lower()}_{desc[:100].lower()}" of the stripped title
\* and the stripped description
Signature(data) ==
    LET title == StrStrip(DictGetD(data, "title", <<>>))
        desc == StrStrip(DictGetD(data, "description", <<>>))
    IN  StrLower(title) \o <<"_">> \o StrLower(Slice(desc, SignatureLen))

\* position of a signature in unique_map (kept in insertion order), or 0
IndexOfSignature(unique_map, signature) ==
    IF \E i \in 1..Len(unique_map) : unique_map[i].signature = signature
    THEN CHOOSE i \in 1..Len(unique_map) : unique_map[i].signature = signature
    ELSE 0

\* the loop over candidates.items(): score every candidate, skip one without
\* a title, and keep per signature the candidate with the higher final_score
\* (the one met first when they are equal)
RECURSIVE Dedup(_, _)
Dedup(unique_map, candidates) ==
    IF candidates = <<>> THEN unique_map
    ELSE LET data == DictSet(Head(candidates), "final_score", FinalScore(Head(candidates)))
         IN  IF "title" \notin DOMAIN data THEN Dedup(unique_map, Tail(candidates))
             ELSE LET signature == Signature(data)
                      i == IndexOfSignature(unique_map, signature)
                      kept == IF i = 0
                              THEN Append(unique_map, [signature |-> signature, data |-> data])
                              ELSE IF data.final_score > unique_map[i].data.final_score
                                   THEN [unique_map EXCEPT ![i].data = data]
                                   ELSE unique_map
                  IN  Dedup(kept, Tail(candidates))

\* the candidates dict of rerank_node after its three merges
MergedCandidates(state) ==
    Merge(Merge(Merge(<<>>, DictGetD(state, "tag_candidates", <<>>), "tag"),
                DictGetD(state, "semantic_candidates", <<>>), "semantic"),
          DictGetD(state, "keyword_candidates", <<>>), "keyword")

\* rerank_node(state): the update it returns
rerank_node(state) ==
    LET unique_map == Dedup(<<>>, MergedCandidates(state))
        candidates_list == [i \in 1..Len(unique_map) |-> unique_map[i].data]
    IN  [ranked_projects |-> Slice(SortedDesc(candidates_list, "final_score"), RankedLimit)]

\* ------------------------------------------------------------ the graphs
END == "__end__"

\* student_workflow: add_edge(a, b) for every pair, entry point analyze_query
StudentEdges ==
    {<<"analyze_query", "track_tag_recall">>,
     <<"analyze_query", "track_semantic_recall">>,
     <<"analyze_query", "track_keyword_recall">>,
     <<"track_tag_recall", "rerank">>,
     <<"track_semantic_recall", "rerank">>,
     <<"track_keyword_recall", "rerank">>,
     <<"rerank", "reasoning_gen">>,
     <<"reasoning_gen", "reasoning_parse">>,
     <<"reasoning_parse", END>>}

\* the three recall branches analyze_query fans out to
RecallBranches == {"track_tag_recall", "track_semantic_recall", "track_keyword_recall"}

\* Faulty variant: the worker hands over to the end, not to the summary
MasterEdges_m ==
    {<<"chat_node", END>>,
     <<"prep_recommendation", "recommendation_worker">>,
     <<"recommendation_worker", END>>,
     <<"summarize_recommendation", END>>,
     <<"project_qa_node", END>>}

\* the master graph of main_agent: its unconditional edges, entry point router
MasterEdges ==
    {<<"chat_node", END>>,
     <<"prep_recommendation", "recommendation_worker">>,
     <<"recommendation_worker", "summarize_recommendation">>,
     <<"summarize_recommendation", END>>,
     <<"project_qa_node", END>>}

\* the mapping of the conditional edge after router
RouteMap ==
    [chat_response |-> "chat_node",
     recommendation_flow |-> "prep_recommendation",
     project_qa_flow |-> "project_qa_node"]

\* route_decision(state)
route_decision(state) == state["next_step"]

Graphs == {"student_workflow", "master"}
EntryPoint(graph) == IF graph = "student_workflow" THEN "analyze_query" ELSE "router"

\* the publisher graph of publisher_main_agent: its unconditional edges,
\* entry point router
PublisherEdges ==
    {<<"chat_node", END>>,
     <<"file_parsing_flow", "publisher_flow">>,
     <<"vector_sync", END>>}

\* the mapping of the conditional edge after its router
PublisherRouteMap ==
    [chat_node |-> "chat_node",
     file_parsing_flow |-> "file_parsing_flow",
     publisher_flow |-> "publisher_flow"]

\* Faulty variant: the bridge always hands over to the end
check_sync_m(state) == END

\* check_sync(state), the conditional edge after publisher_flow
check_sync(state) ==
    IF DictGetD(state, "final_requirement_id", 0) # 0 THEN "vector_sync" ELSE END

\* the steps a step hands over to, given the state its update produced
Successors(graph, step, state) ==
    IF graph = "master" /\ step = "router" THEN {RouteMap[route_decision(state)]}
    ELSE IF graph = "publisher" /\ step = "router"
    THEN {PublisherRouteMap[route_decision(state)]}
    ELSE IF graph = "publisher" /\ step = "publisher_flow" THEN {check_sync(state)}
    ELSE LET edges == IF graph = "student_workflow" THEN StudentEdges
                      ELSE IF graph = "publisher" THEN PublisherEdges
                      ELSE MasterEdges
         IN  {e[2] : e \in {e \in edges : e[1] = step}}

\* the state keys declared with a reducer: messages of MasterState and of
\* PublisherMasterState is Annotated with add_messages, every other key
\* keeps the last value written
HasReducer(graph, key) == graph \in {"master", "publisher"} /\ key = "messages"

\* one update merged into the state
ApplyUpdate(graph, state, update) ==
    [k \in DOMAIN state \cup DOMAIN update |->
        IF k \notin DOMAIN update THEN state[k]
        ELSE IF HasReducer(graph, k) /\ k \in DOMAIN state THEN state[k] \o update[k]
        ELSE update[k]]

\* the updates of a superstep merged one after the other, in the given order
RECURSIVE ApplyWrites(_, _, _)
ApplyWrites(graph, state, updates) ==
    IF updates = <<>> THEN state
    ELSE ApplyWrites(graph, ApplyUpdate(graph, state, Head(updates)), Tail(updates))

\* two updates of one superstep write a key that has no reducer
WriteConflict(graph, updates) ==
    \E i, j \in 1..Len(updates) :
        /\ i < j
        /\ \E k \in DOMAIN updates[i] \cap DOMAIN updates[j] : ~HasReducer(graph, k)

\* ----------------------------------------------- the steps of the graphs
\* A row of project_requirement. The texts are chosen so that rows 1 and 2
\* differ only in case, row 3 only in a leading blank of the title, rows 4
\* and 5 in where the "_" stands, rows 6 and 7 after a leading blank and 100
\* equal characters, rows 8 and 9 after 100 equal characters; the rows from
\* 10 on have titles of their own.
RequirementTitle(id) ==
    CASE id = 1 -> <<"A", "b">>
      [] id = 2 -> <<"a", "b">>
      [] id = 3 -> <<" ", "a", "b">>
      [] id = 4 -> <<"a">>
      [] id = 5 -> <<"a", "_", "b">>
      [] id \in {6, 7} -> <<"l">>
      [] id \in {8, 9} -> <<"m">>
      [] OTHER -> <<"f", ToString(id)>>

RequirementDescription(id) ==
    CASE id = 1 -> <<"x">>
      [] id = 2 -> <<"X">>
      [] id = 3 -> <<"x">>
      [] id = 4 -> <<"b", "_", "c">>
      [] id = 5 -> <<"c">>
      [] id = 6 -> <<" ">> \o Rep("a", SignatureLen - 1) \o <<"b">>
      [] id = 7 -> <<" ">> \o Rep("a", SignatureLen - 1) \o <<"c">>
      [] id = 8 -> Rep("a", SignatureLen) \o <<"b">>
      [] id = 9 -> Rep("a", SignatureLen) \o <<"c">>
      [] OTHER -> <<>>

Requirement(id, status) ==
    [id |-> id, title |-> RequirementTitle(id), status |-> status,
     description |-> RequirementDescription(id)]

\* the entry a recall track returns for a row
Candidate(row, score, match_type) ==
    [id |-> row.id, title |-> row.title, status |-> row.status,
     description |-> row.description, score |-> score, match_type |-> match_type]

\* for p in results: p["source"] = name
WithSource(results, name) == [i \in 1..Len(results) |-> DictSet(results[i], "source", name)]

\* what a step function does: it returns an update or it raises
Returns(update) == [kind |-> "update", update |-> update]
Raises == [kind |-> "raise", update |-> EmptyDict]

\* what extract_keywords and retrieve_tags can answer
Analyses ==
    {[keywords |-> <<"k1">>, interest_ids |-> <<1>>, skill_ids |-> <<1>>],
     [keywords |-> <<>>, interest_ids |-> <<>>, skill_ids |-> <<>>]}

\* analyze_query_node: Config.get_utility_llm and Config.get_milvus_store are
\* called outside the handlers of the two tools, so their errors leave it
analyze_query_node(state) ==
    {Returns([user_input |-> state["user_input"],
              keywords |-> a.keywords,
              interest_ids |-> a.interest_ids,
              skill_ids |-> a.skill_ids,
              interest_tags |-> a.interest_ids,
              skill_tags |-> a.skill_ids]) : a \in Analyses}
    \cup {Raises}

\* track_tag_recall
track_tag_recall(state, database) ==
    LET interest_ids == DictGetD(state, "interest_ids", <<>>)
        skill_ids == DictGetD(state, "skill_ids", <<>>)
        answers == UNION {search_projects_by_tags(database, interest_ids, skill_ids, fault) :
                             fault \in TagFaults}
    IN  {IF results.raised THEN Raises
         ELSE Returns([tag_candidates |-> WithSource(results.value, "tag")]) : results \in answers}

\* what search_projects_semantic can answer on the database: nothing, or one
\* of the accepted rows with its similarity score
SemanticAnswers(database) ==
    {<<>>} \cup {<<Candidate(r, 1, "semantic")>> :
                    r \in {r \in database.project_requirement : r.status \in StatusAllowed}}

\* track_semantic_recall: get_milvus_store is called outside the handler of
\* search_projects_semantic
track_semantic_recall(state, database) ==
    {Returns([semantic_candidates |-> WithSource(results, "semantic")]) :
        results \in SemanticAnswers(database)}
    \cup {Raises}

\* what search_projects_fulltext can answer: nothing without keywords, else
\* nothing or one accepted row with its relevance
KeywordAnswers(database, keywords) ==
    IF keywords = <<>> THEN {<<>>}
    ELSE {<<>>} \cup {<<Candidate(r, 2, "fulltext")>> :
                         r \in {r \in database.project_requirement : r.status \in StatusAllowed}}

\* Faulty variant: the keyword track returns its results under the key of
\* the semantic track
track_keyword_recall_m(state, database) ==
    {Returns([semantic_candidates |->
                 WithSource(results, "keyword")]) :
        results \in KeywordAnswers(database, DictGetD(state, "keywords", <<>>))}
    \cup {Raises}

\* track_keyword_recall: get_db_connection is called outside the handler of
\* search_projects_fulltext
track_keyword_recall(state, database) ==
    {Returns([keyword_candidates |->
                 WithSource(results, "keyword")]) :
        results \in KeywordAnswers(database, DictGetD(state, "keywords", <<>>))}
    \cup (IF DictGetD(state, "keywords", <<>>) = <<>> THEN {} ELSE {Raises})

\* messages; the content of a model answer is its text and the JSON block
\* in it (None when it has none)
AIMessage(name) == [type |-> "ai", name |-> name, content |-> <<"a">>]
HumanMessage(content) == [type |-> "human", name |-> None, content |-> content]
Content(text, json) == [text |-> text, json |-> json]

\* what the reasoning model can answer: a text with a JSON block, or without
ReasoningContents ==
    {Content("t", [recommended_projects |-> <<1>>]), Content("t", [interest_tags |-> <<1>>]),
     Content("t", NoneObj)}

\* reasoning_gen_node: the model call has no handler
reasoning_gen_node(state) ==
    {Returns([messages |-> <<AIMessage("reasoning")>>, final_output |-> content]) :
        content \in ReasoningContents}
    \cup {Raises}

\* the JSON block of a model answer parsed, {} when there is none
ParseJsonBlock(content) == IF content.json = NoneObj THEN EmptyDict ELSE content.json

\* reasoning_parse_node: every error is swallowed
reasoning_parse_node(state) ==
    {Returns([profile_data |-> ParseJsonBlock(state["final_output"])])}

\* get_last_message_text(messages): the text of the last message, "" when
\* there is none
get_last_message_text(messages) ==
    IF messages = <<>> THEN <<>> ELSE messages[Len(messages)].content

\* the decimal digits, each at the position of its value plus one
DigitChars == <<"0", "1", "2", "3", "4", "5", "6", "7", "8", "9">>
IsDigit(c) == \E d \in 1..Len(DigitChars) : DigitChars[d] = c
DigitValue(c) == (CHOOSE d \in 1..Len(DigitChars) : DigitChars[d] = c) - 1

\* int(digits)
RECURSIVE ToInt(_)
ToInt(digits) ==
    IF digits = <<>> THEN 0
    ELSE 10 * ToInt(SubSeq(digits, 1, Len(digits) - 1)) + DigitValue(digits[Len(digits)])

\* the shortest run of digits the id pattern accepts
IdDigits == 3

\* re.search(r'(\d{3,})', text): the first run of three digits, taken with
\* every digit that follows it; <<>> when there is none
SearchId(text) ==
    LET starts == {i \in 1..Len(text) :
                      /\ i + IdDigits - 1 <= Len(text)
                      /\ \A j \in i..(i + IdDigits - 1) : IsDigit(text[j])}
    IN  IF starts = {} THEN <<>>
        ELSE LET first == CHOOSE i \in starts : \A j \in starts : i <= j
                 last == CHOOSE e \in first..Len(text) :
                             /\ \A j \in first..e : IsDigit(text[j])
                             /\ (e = Len(text) \/ ~IsDigit(text[e + 1]))
             IN  SubSeq(text, first, last)

\* The answer of the classifier is a sequence of pieces of text: a brace, a
\* word, a blank, or a member of a JSON object ("intent": "RECOMMEND",
\* "intent": null, "target_id": 123) written out.
Braces == {"{", "}"}
IntentMembers ==
    {"intent=RECOMMEND", "intent=recommend", "intent=PROJECT_QA", "intent=null"}
TargetMembers == {"target_id=123"}
Words == {"RECOMMEND", "PROJECT_QA", "x", " "}
Pieces == Braces \cup IntentMembers \cup TargetMembers \cup Words

\* marker in content, for the two markers of the fallback
HasMarker(content, marker) ==
    \E i \in 1..Len(content) :
        \/ content[i] = marker
        \/ content[i] = "intent=" \o marker

\* re.search(r'\{.*\}', content, re.DOTALL).group(0): from the first opening
\* brace to the last closing brace after it; <<>> when there is no match
SearchObject(content) ==
    LET opens == {i \in 1..Len(content) : content[i] = "{"}
    IN  IF opens = {} THEN <<>>
        ELSE LET first == CHOOSE i \in opens : \A j \in opens : i <= j
                 closes == {i \in (first + 1)..Len(content) : content[i] = "}"}
             IN  IF closes = {} THEN <<>>
                 ELSE SubSeq(content, first, CHOOSE i \in closes : \A j \in closes : j <= i)

\* json.loads accepts the text: members between its two braces and nothing
\* else
IsJson(text) ==
    \A i \in 2..(Len(text) - 1) : text[i] \in IntentMembers \cup TargetMembers

\* the value a member gives its key
MemberValue(piece) ==
    CASE piece = "intent=RECOMMEND" -> "RECOMMEND"
      [] piece = "intent=recommend" -> "recommend"
      [] piece = "intent=PROJECT_QA" -> "PROJECT_QA"
      [] piece = "intent=null" -> None
      [] piece = "target_id=123" -> 123

\* json.loads(text) of an accepted text: the last member of a key gives its
\* value
JsonLoads(text) ==
    LET at(members) == {i \in 2..(Len(text) - 1) : text[i] \in members}
        value(members) == MemberValue(text[CHOOSE i \in at(members) : \A j \in at(members) : j <= i])
        keys == (IF at(IntentMembers) = {} THEN {} ELSE {"intent"})
                    \cup (IF at(TargetMembers) = {} THEN {} ELSE {"target_id"})
    IN  [k \in keys |-> IF k = "intent" THEN value(IntentMembers) ELSE value(TargetMembers)]

\* str.upper on the intents in use
StrUpper(text) == IF text = "recommend" THEN "RECOMMEND" ELSE text

\* what the classifier call can come to: the model cannot be built
\* (get_utility_llm raises without its key), the call fails, or it answers
ClassifierOutcome(kind, content) == [kind |-> kind, content |-> content]

\* the part of router_node inside its handler, on the answer of the model:
\* the update it returns, or the error that reaches the handler
RouteAnswer(last_user_msg, answer) ==
    LET content == StrStrip(answer)
        json_match == SearchObject(content)
    IN  IF json_match # <<>> /\ ~IsJson(json_match) THEN Raised
        ELSE LET result ==
                     IF json_match # <<>> THEN JsonLoads(json_match)
                     ELSE IF HasMarker(content, "RECOMMEND") THEN [intent |-> "RECOMMEND"]
                     ELSE IF HasMarker(content, "PROJECT_QA")
                          THEN [intent |-> "PROJECT_QA", target_id |-> 0]
                     ELSE [intent |-> "CHAT"]
             IN  IF DictGetD(result, "intent", "CHAT") = None THEN Raised
                 ELSE LET intent == StrUpper(DictGetD(result, "intent", "CHAT"))
                          given == DictGetD(result, "target_id", 0)
                          target_id == IF intent = "PROJECT_QA" /\ given = 0
                                          /\ SearchId(last_user_msg) # <<>>
                                       THEN ToInt(SearchId(last_user_msg)) ELSE given
                      IN  IF intent = "RECOMMEND"
                          THEN Returned([next_step |-> "recommendation_flow"])
                          ELSE IF intent = "PROJECT_QA" /\ target_id # 0
                               THEN Returned([next_step |-> "project_qa_flow",
                                              target_project_id |-> target_id])
                          ELSE Returned([next_step |-> "chat_response"])

\* Faulty variant: the errors of the classification are not caught
router_node_m(state, outcome) ==
    IF outcome.kind # "answer" THEN Raises
    ELSE LET routed == RouteAnswer(get_last_message_text(state["messages"]), outcome.content)
         IN  IF routed.raised THEN Raises ELSE Returns(routed.value)

\* router_node: Config.get_utility_llm is called outside the handler; inside
\* it every error (the call, json.loads, upper on a value that is no string)
\* ends in chat_response
router_node(state, outcome) ==
    IF outcome.kind = "config_error" THEN Raises
    ELSE IF outcome.kind = "call_error" THEN Returns([next_step |-> "chat_response"])
    ELSE LET routed == RouteAnswer(get_last_message_text(state["messages"]), outcome.content)
         IN  IF routed.raised THEN Returns([next_step |-> "chat_response"])
             ELSE Returns(routed.value)

\* the pieces of an answer at most
MaxPieces == 3

\* every outcome of the classifier call
ClassifierOutcomes ==
    {ClassifierOutcome("config_error", <<>>), ClassifierOutcome("call_error", <<>>)}
        \cup {ClassifierOutcome("answer", content) : content \in UNION {[1..m -> Pieces] : m \in 0..MaxPieces}}

\* Faulty variant: chat_node resets the profile of the thread
chat_node_m(state) ==
    {Returns([messages |-> <<AIMessage(None)>>, user_profile |-> EmptyDict]), Raises}

\* chat_node: the model call has no handler
chat_node(state) == {Returns([messages |-> <<AIMessage(None)>>]), Raises}

\* prep_recommendation_node
prep_recommendation_node(state) ==
    {Returns([user_input |-> get_last_message_text(state["messages"]),
              student_id |-> 700,
              profile_data |-> EmptyDict])}

\* recommendation_worker, the compiled student_workflow run as one step: the
\* keys of its final state, or the error of the run
recommendation_worker(state) ==
    {Returns([messages |-> <<AIMessage("reasoning")>>,
              user_input |-> state["user_input"],
              final_output |-> content,
              profile_data |-> ParseJsonBlock(content)]) : content \in ReasoningContents}
    \cup {Raises}

\* summarize_recommendation_node: without profile data it answers with a
\* fixed message; else the model call, which has no handler
summarize_recommendation_node(state) ==
    LET given == DictGetD(state, "profile_data", EmptyDict)
        final_output == DictGetD(state, "final_output", Content("", NoneObj))
        profile_data == IF given = EmptyDict /\ final_output.text # ""
                        THEN ParseJsonBlock(final_output) ELSE given
    IN  IF profile_data = EmptyDict THEN {Returns([messages |-> <<AIMessage(None)>>])}
        ELSE {Returns([messages |-> <<AIMessage(None)>>, user_profile |-> profile_data]), Raises}

\* project_qa_node: the answering model call has no handler
project_qa_node(state) == {Returns([messages |-> <<AIMessage(None)>>]), Raises}

\* ------------------------------------------ the steps of the publisher
\* the content of a user message of the publisher: its text and the file
\* item it carries (None without one, "bad" for data base64 cannot decode)
Upload(text, file) == [text |-> text, file |-> file]
Files == {None, "b64", "bad"}

\* what the publisher agent hands back: its final state, in which
\* is_complete is the False of the inputs (no step of the agent writes it)
PublisherStates == {[is_complete |-> FALSE, current_draft_id |-> 0]}

\* the result of the file parsing graph on success
ParsedFile == [success |-> TRUE, extracted_data |-> EmptyDict]

\* Faulty variant: a draft in progress is classified like a first message
publisher_router_node_m(state) ==
    LET last == state["messages"][Len(state["messages"])].content
        new_file_uploaded == last.file = "b64"
        file_path == IF new_file_uploaded THEN "tmp" ELSE DictGetD(state, "file_path", None)
        original_filename == IF new_file_uploaded THEN "upload"
                             ELSE DictGetD(state, "original_filename", None)
    IN  IF new_file_uploaded
           \/ (file_path # None /\ DictGetD(state, "parsed_file_data", NoneObj) = NoneObj)
        THEN {Returns([next_step |-> "file_parsing_flow", file_path |-> file_path,
                       original_filename |-> original_filename])}
        ELSE {Returns([next_step |-> "publisher_flow"]),
              Returns([next_step |-> "chat_node"]),
              Raises}

\* router_node of the publisher: a new upload, or a file not parsed yet,
\* goes to file parsing; a draft in progress goes on in the publisher flow;
\* else the classifier decides, an error of its call falls back to
\* chat_node, and Config.get_utility_llm is called outside the handler
publisher_router_node(state) ==
    LET last == state["messages"][Len(state["messages"])].content
        new_file_uploaded == last.file = "b64"
        file_path == IF new_file_uploaded THEN "tmp" ELSE DictGetD(state, "file_path", None)
        original_filename == IF new_file_uploaded THEN "upload"
                             ELSE DictGetD(state, "original_filename", None)
        publisher_state == DictGetD(state, "publisher_state", NoneObj)
    IN  IF new_file_uploaded
           \/ (file_path # None /\ DictGetD(state, "parsed_file_data", NoneObj) = NoneObj)
        THEN {Returns([next_step |-> "file_parsing_flow", file_path |-> file_path,
                       original_filename |-> original_filename])}
        ELSE IF publisher_state # NoneObj /\ ~publisher_state.is_complete
        THEN {Returns([next_step |-> "publisher_flow"])}
        ELSE {Returns([next_step |-> "publisher_flow"]),
              Returns([next_step |-> "chat_node"]),
              Raises}

\* chat_node of the publisher: the model call has no handler
publisher_chat_node(state) == {Returns([messages |-> <<AIMessage(None)>>]), Raises}

\* file_parsing_node: the parsing graph succeeds or reports a failure; its
\* invoke has no handler
file_parsing_node(state) ==
    {Returns([parsed_file_data |-> ParsedFile,
              messages |-> <<[AIMessage(None) EXCEPT !.content = <<"parsed">>]>>]),
     Returns([file_path |-> None, messages |-> <<AIMessage(None)>>]),
     Raises}

\* the ids save_requirement can report: 0 stands for no requirement saved
SavedIds == {0, 7}

\* publisher_bridge_node: the publisher agent runs (its invoke has no
\* handler); new_req_id is the id the save_requirement tool reported, 0
\* when no requirement was saved
publisher_bridge_node(state) ==
    {Returns([messages |-> <<AIMessage(None)>>,
              publisher_state |-> result,
              final_requirement_id |-> new_req_id,
              final_requirement_data |-> IF new_req_id = 0 THEN EmptyDict
                                         ELSE [id |-> new_req_id]]) :
        result \in PublisherStates, new_req_id \in SavedIds}
    \cup {Raises}

\* vector_sync_node
vector_sync_node(state) ==
    IF DictGetD(state, "final_requirement_id", 0) = 0 THEN {Returns(EmptyDict)}
    ELSE {Returns([parsed_file_data |-> NoneObj, messages |-> <<AIMessage(None)>>])}

\* what a step of the publisher graph can do on the state it is given
PublisherStepOutcomes(step, state) ==
    CASE step = "router" -> publisher_router_node(state)
      [] step = "chat_node" -> publisher_chat_node(state)
      [] step = "file_parsing_flow" -> file_parsing_node(state)
      [] step = "publisher_flow" -> publisher_bridge_node(state)
      [] step = "vector_sync" -> vector_sync_node(state)

\* ------------------------------------------------------- the scheduler
\* the user messages of a turn: a text without an id and one that names
\* project 123
TurnTexts == {<<"q">>, <<"1", "2", "3">>}

\* what router_node can return on each of them, over every outcome of the
\* classifier call
RouterOutcomes ==
    [text \in TurnTexts |->
        {router_node([messages |-> <<HumanMessage(text)>>], outcome) :
            outcome \in ClassifierOutcomes}]

\* what a step can do on the state it is given
StepOutcomes(step, state, database) ==
    CASE grun.graph = "publisher" -> PublisherStepOutcomes(step, state)
      [] step = "analyze_query" -> analyze_query_node(state)
      [] step = "track_tag_recall" -> track_tag_recall(state, database)
      [] step = "track_semantic_recall" -> track_semantic_recall(state, database)
      [] step = "track_keyword_recall" -> track_keyword_recall(state, database)
      [] step = "rerank" -> {Returns(rerank_node(state))}
      [] step = "reasoning_gen" -> reasoning_gen_node(state)
      [] step = "reasoning_parse" -> reasoning_parse_node(state)
      [] step = "router" ->
            IF get_last_message_text(state["messages"]) \in TurnTexts
            THEN RouterOutcomes[get_last_message_text(state["messages"])]
            ELSE {router_node(state, outcome) : outcome \in ClassifierOutcomes}
      [] step = "chat_node" -> chat_node(state)
      [] step = "prep_recommendation" -> prep_recommendation_node(state)
      [] step = "recommendation_worker" -> recommendation_worker(state)
      [] step = "summarize_recommendation" -> summarize_recommendation_node(state)
      [] step = "project_qa_node" -> project_qa_node(state)

\* the steps that await a model, the vector store or the relational store
CallsAdapter(step) ==
    step \notin {"rerank", "reasoning_parse", "prep_recommendation", "vector_sync"}

Task(status, update) == [status |-> status, update |-> update]
Started(step) == step \in DOMAIN tasks
Running(step) == Started(step) /\ tasks[step].status = "running"
RunningTasks == {step \in DOMAIN tasks : tasks[step].status = "running"}

\* the state a run is invoked with: the input of test_workflow for the
\* student workflow, a user message for the master graph
RunInput(graph) ==
    IF graph = "student_workflow"
    THEN [messages |-> <<>>, user_input |-> <<"q">>, student_id |-> 2,
          profile_data |-> EmptyDict, final_output |-> Content("", NoneObj)]
    ELSE [messages |-> <<HumanMessage(<<"q">>)>>]

\* app.invoke(input): the run starts with its entry point as the only task
RunStart(graph) ==
    /\ grun.status = "idle"
    /\ grun' = [graph |-> graph, status |-> "running", step |-> 1]
    /\ gstate' = RunInput(graph)
    /\ tasks' = [s \in {EntryPoint(graph)} |-> Task("running", EmptyDict)]
    /\ order' = <<>>
    /\ runs' = [s \in {EntryPoint(graph)} |-> 1]
    /\ lastOp' = Op("run", None, None, "started", [step |-> EntryPoint(graph)])
    /\ UNCHANGED <<storeVars, swapVars, db>>

\* a task returns its update; the update waits for the end of the superstep
StepReturn(step, outcome) ==
    /\ grun.status = "running"
    /\ Running(step)
    /\ outcome \in StepOutcomes(step, gstate, db)
    /\ outcome.kind = "update"
    /\ tasks' = [tasks EXCEPT ![step] = Task("returned", outcome.update)]
    /\ order' = Append(order, step)
    /\ lastOp' = Op("step", None, None, "returned", [step |-> step])
    /\ UNCHANGED <<storeVars, swapVars, grun, gstate, runs, db>>

\* Faulty variant: the error of a step is swallowed: the step counts as
\* returned with an update that marks the failure
StepRaise_m(step) ==
    /\ grun.status = "running"
    /\ Running(step)
    /\ Raises \in StepOutcomes(step, gstate, db)
    /\ tasks' = [tasks EXCEPT ![step] = Task("returned", [final_output |-> Content("error", NoneObj)])]
    /\ order' = Append(order, step)
    /\ lastOp' = Op("step", None, None, "raised", [step |-> step])
    /\ UNCHANGED <<storeVars, swapVars, grun, gstate, runs, db>>

\* a task raises: the run ends with the error, the tasks still running are
\* cancelled, the updates of the superstep are not merged
StepRaise(step) ==
    /\ grun.status = "running"
    /\ Running(step)
    /\ Raises \in StepOutcomes(step, gstate, db)
    /\ tasks' = [s \in DOMAIN tasks |->
                    IF s = step THEN Task("raised", EmptyDict)
                    ELSE IF tasks[s].status = "running" THEN Task("cancelled", EmptyDict)
                    ELSE tasks[s]]
    /\ grun' = [grun EXCEPT !.status = "error"]
    /\ lastOp' = Op("step", None, None, "raised", [step |-> step])
    /\ UNCHANGED <<storeVars, swapVars, gstate, order, runs, db>>

\* the adapter call a task awaits never answers: no call is given a timeout
\* and the run has no deadline, so the task stays as it is
StepHang(step) ==
    /\ grun.status = "running"
    /\ Running(step)
    /\ CallsAdapter(step)
    /\ tasks' = [tasks EXCEPT ![step].status = "hung"]
    /\ lastOp' = Op("step", None, None, "hung", [step |-> step])
    /\ UNCHANGED <<storeVars, swapVars, grun, gstate, order, runs, db>>

\* Faulty variant: the superstep ends as soon as one of its tasks has returned
Barrier_m(ts) == \E s \in DOMAIN ts : ts[s].status = "returned"

\* the superstep is complete: every task started in it has returned
Barrier(ts) ==
    /\ \E s \in DOMAIN ts : ts[s].status = "returned"
    /\ \A s \in DOMAIN ts : ts[s].status \in {"returned", "applied"}

\* The end of a superstep: the updates of its tasks are merged into the
\* state (two writes of one key without reducer are an error), and the
\* steps its tasks hand over to become the tasks of the next superstep.
Commit ==
    /\ grun.status = "running"
    /\ Barrier(tasks)
    /\ LET updates == [i \in 1..Len(order) |-> tasks[order[i]].update]
           state == ApplyWrites(grun.graph, gstate, updates)
           next == UNION {Successors(grun.graph, order[i], state) : i \in 1..Len(order)} \ {END}
       IN  IF WriteConflict(grun.graph, updates)
           THEN /\ grun' = [grun EXCEPT !.status = "error"]
                /\ lastOp' = Op("step", None, None, "raised", [step |-> "InvalidUpdateError"])
                /\ UNCHANGED <<gstate, tasks, runs>>
           ELSE /\ gstate' = state
                /\ tasks' = [s \in DOMAIN tasks \cup next |->
                                IF s \in next THEN Task("running", EmptyDict)
                                ELSE IF tasks[s].status = "returned"
                                     THEN [tasks[s] EXCEPT !.status = "applied"]
                                     ELSE tasks[s]]
                /\ runs' = [s \in DOMAIN runs \cup next |->
                               DictGetD(runs, s, 0) + (IF s \in next THEN 1 ELSE 0)]
                /\ grun' = IF next = {}
                           THEN [grun EXCEPT !.status = "done"]
                           ELSE [grun EXCEPT !.step = @ + 1]
                /\ lastOp' = Op("commit", None, None,
                                IF next = {} THEN "done" ELSE "running",
                                [step |-> order[Len(order)]])
    /\ order' = <<>>
    /\ UNCHANGED <<storeVars, swapVars, db>>

\* The cache-backed store under concurrent runs and readers.
Next ==
    \/ \E p \in Procs, t \in Threads : TurnStart(p, t)
    \/ \E p \in Procs, ok \in BOOLEAN : PutSnapshot(p, ok)
    \/ \E p \in Procs, ok \in BOOLEAN : PutLatest(p, ok)
    \/ \E p \in Procs : Crash(p)
    \/ \E c \in GetConfigs : Get(c)

Spec == Init /\ [][Next]_vars

\* The history endpoint next to the two stores: turns of the student agent
\* in Postgres, deletes of a thread, and runs on the cache-backed store
\* started one at a time.
NextHistory ==
    \/ \E t \in Threads : PgTurn(t)
    \/ \E t \in Threads, failAt \in FailPoints : DeleteChatHistory(t, failAt)
    \/ \E t \in Threads : TurnStart(1, t)
    \/ \E ok \in BOOLEAN : PutSnapshot(1, ok)
    \/ \E ok \in BOOLEAN : PutLatest(1, ok)
    \/ Crash(1)

SpecHistory == Init /\ [][NextHistory]_vars

\* The server process from the import of server.py on: startup, then the
\* turns the two routes serve and the history reads.
InitSwap ==
    /\ StoresEmpty
    /\ GraphIdle
    /\ server = ImportedServer
    /\ \E c \in PublisherPlaceholders : objects = ImportedObjects(c)
    /\ memory = {}
    /\ serving = NotServing

NextSwap ==
    \/ \E ok \in BOOLEAN : Lifespan(ok)
    \/ \E a \in Agents, t \in Threads : ServeStart(a, t)
    \/ \E a \in Agents : ServeEnd(a)
    \/ \E t \in Threads : GetChatHistory(t)
    \/ \E t \in Threads, failAt \in FailPoints :
          server.phase = "serving" /\ DeleteChatHistory(t, failAt)
    \/ LifespanShutdown

SpecSwap == InitSwap /\ [][NextSwap]_vars

\* the relational store of the graph runs: two accepted requirements and a
\* draft, the first tagged with interest 1 and skill 1, the second with
\* interest 1
GraphDb ==
    [project_requirement |->
        {Requirement(1, "completed"), Requirement(2, "in_progress"), Requirement(10, "draft")},
     project_requirement_tag1 |->
        {[requirement_id |-> 1, tag1_id |-> 1], [requirement_id |-> 2, tag1_id |-> 1],
         [requirement_id |-> 10, tag1_id |-> 1]},
     project_requirement_tag2 |-> {[requirement_id |-> 1, tag2_id |-> 1]}]

\* The scheduler running either graph once.
InitGraph ==
    /\ StoresEmpty
    /\ SwapIdle
    /\ grun = NoRun
    /\ gstate = EmptyDict
    /\ tasks = EmptyDict
    /\ order = <<>>
    /\ runs = EmptyDict
    /\ db = GraphDb

NextGraph ==
    \/ \E graph \in Graphs : RunStart(graph)
    \/ \E step \in RunningTasks : \E outcome \in StepOutcomes(step, gstate, db) :
          StepReturn(step, outcome)
    \/ \E step \in RunningTasks : StepRaise(step)
    \/ \E step \in RunningTasks : StepHang(step)
    \/ Commit

\* a step that can be taken is taken: the event loop runs every task that
\* is ready, and a superstep ends once its tasks are through
SpecGraph == InitGraph /\ [][NextGraph]_vars /\ WF_vars(NextGraph)

\* ------------------------------------- rerank_node on the lists of a run
\* the entries of the tag list taken from the catalogue, and the further
\* entries (with titles of their own) that can follow them
MaxTagLen == 2
MaxFill == 16

\* the requirements with texts that meet in the signature
CatalogueIds == 1..9
SemanticIds == {1, 2, 6, 7}
KeywordIds == {1, 4, 5, 8, 9}

\* the score a track reports for a requirement: the tag track a count of
\* rows, the semantic track a similarity, the keyword track a relevance
TrackScore(track, id) ==
    CASE track = "tag" -> IF id \in CatalogueIds THEN 1 + (id % 2) ELSE 1 + (id % 3)
      [] track = "semantic" -> 1
      [] track = "keyword" -> IF id % 2 = 0 THEN 3 ELSE 1

\* the list a track returns for the requirements ids, as the recall step
\* hands it on
TrackList(track, match_type, ids) ==
    WithSource([i \in 1..Len(ids) |->
                   Candidate(Requirement(ids[i], "completed"), TrackScore(track, ids[i]), match_type)],
               track)

\* the sequences of up to n different elements of a set
DistinctSeqs(set, n) ==
    {q \in UNION {[1..m -> set] : m \in 0..n} : \A i, j \in DOMAIN q : q[i] = q[j] => i = j}

\* the further entries, in the order of their ids
FillSeq == [i \in 1..MaxFill |-> 100 + i]

\* the states rerank_node is called on
RerankInputs ==
    {[tag_candidates |-> TrackList("tag", "tag", t \o f),
      semantic_candidates |-> TrackList("semantic", "semantic", m),
      keyword_candidates |-> TrackList("keyword", "fulltext", k)] :
        t \in DistinctSeqs(CatalogueIds, MaxTagLen), f \in {<<>>, FillSeq},
        m \in DistinctSeqs(SemanticIds, 1), k \in DistinctSeqs(KeywordIds, 1)}

InitFusion ==
    /\ StoresEmpty
    /\ SwapIdle
    /\ grun = NoRun
    /\ gstate \in RerankInputs
    /\ tasks = EmptyDict
    /\ order = <<>>
    /\ runs = EmptyDict
    /\ db = EmptyDb

\* rerank_node is called on the state and its update is merged
Rerank ==
    /\ "tag_candidates" \in DOMAIN gstate
    /\ "ranked_projects" \notin DOMAIN gstate
    /\ gstate' = ApplyUpdate("student_workflow", gstate, rerank_node(gstate))
    /\ lastOp' = Op("rerank", None, None, "returned", EmptyDict)
    /\ UNCHANGED <<storeVars, swapVars, grun, tasks, order, runs, db>>

NextFusion == Rerank

\* The fusion step on every combination of track results.
SpecFusion == InitFusion /\ [][NextFusion]_vars

\* ------------------------- search_projects_by_tags on the tables of a run
\* the ids a caller supplies in one list at most
MaxIdsLen == 2

\* the lists of up to n elements of a set, an element possibly more than once
Lists(set, n) == UNION {[1..m -> set] : m \in 0..n}

\* the interest tags and the skill tags are rows of two tables, each with
\* ids of its own
InterestTagIds == {1, 2}
SkillTagIds == {1, 3}

\* the relational store: two accepted requirements and a draft, and any
\* tagging of the accepted ones
TagDbs ==
    {[project_requirement |->
          {Requirement(1, "completed"), Requirement(2, "in_progress"), Requirement(10, "draft")},
      project_requirement_tag1 |-> j1 \cup {[requirement_id |-> 10, tag1_id |-> 1]},
      project_requirement_tag2 |-> j2] :
        j1 \in SUBSET {[requirement_id |-> 1, tag1_id |-> 1], [requirement_id |-> 1, tag1_id |-> 2],
                       [requirement_id |-> 2, tag1_id |-> 1]},
        j2 \in SUBSET {[requirement_id |-> 1, tag2_id |-> 1], [requirement_id |-> 2, tag2_id |-> 3]}}

InitTagTrack ==
    /\ StoresEmpty
    /\ SwapIdle
    /\ grun = NoRun
    /\ gstate \in {[interest_ids |-> i, skill_ids |-> k] :
                      i \in Lists(InterestTagIds, MaxIdsLen), k \in Lists(SkillTagIds, MaxIdsLen)}
    /\ tasks = EmptyDict
    /\ order = <<>>
    /\ runs = EmptyDict
    /\ db \in TagDbs

\* search_projects_by_tags.invoke({"interest_ids": ..., "skill_ids": ...})
TagSearch(fault) ==
    /\ lastOp.op # "search_projects_by_tags"
    /\ "interest_ids" \in DOMAIN gstate
    /\ \E results \in search_projects_by_tags(db, gstate["interest_ids"], gstate["skill_ids"], fault) :
          /\ gstate' = IF results.raised THEN gstate
                       ELSE DictSet(gstate, "tag_candidates", results.value)
          /\ lastOp' = Op("search_projects_by_tags", None, None,
                          IF results.raised THEN "raised" ELSE "returned", [fault |-> fault])
    /\ UNCHANGED <<storeVars, swapVars, grun, tasks, order, runs, db>>

NextTagTrack == \E fault \in TagFaults : TagSearch(fault)

\* The tag track on every tagging of the store and every list of ids.
SpecTagTrack == InitTagTrack /\ [][NextTagTrack]_vars

\* ------------------------------------------------ search_projects_fulltext
\* sub occurs in text
Contains(text, sub) ==
    \E i \in 0..(Len(text) - Len(sub)) : SubSeq(text, i + 1, i + Len(sub)) = sub

\* how the columns compare letters: without regard to case ("ci", the
\* default of the MySQL character sets) or by their code ("bin")
Collations == {"ci", "bin"}
CharEq(a, b, collation) ==
    IF collation = "ci" THEN LowerChar(a) = LowerChar(b) ELSE a = b

\* text LIKE pattern: "%" stands for any characters, "_" for one character
RECURSIVE LikeMatch(_, _, _)
LikeMatch(text, pattern, collation) ==
    IF pattern = <<>> THEN text = <<>>
    ELSE IF Head(pattern) = "%"
         THEN \/ LikeMatch(text, Tail(pattern), collation)
              \/ text # <<>> /\ LikeMatch(Tail(text), pattern, collation)
    ELSE /\ text # <<>>
         /\ Head(pattern) = "_" \/ CharEq(Head(text), Head(pattern), collation)
         /\ LikeMatch(Tail(text), Tail(pattern), collation)

\* Faulty variant: the scan looks at the titles only
LikeScan_m(database, keywords) ==
    {r \in database.project_requirement :
        /\ \E n \in 1..Len(keywords) :
              LikeMatch(r.title, <<"%">> \o keywords[n] \o <<"%">>, database.collation)
        /\ r.status \in StatusAllowed}

\* SELECT ... FROM project_requirement WHERE ((title LIKE %s OR description
\* LIKE %s) OR ...) AND status IN (<allowed>), with f"%{k}%" for every
\* keyword k: the keyword goes into the pattern as it is
LikeScan(database, keywords) ==
    {r \in database.project_requirement :
        /\ \E n \in 1..Len(keywords) :
              \/ LikeMatch(r.title, <<"%">> \o keywords[n] \o <<"%">>, database.collation)
              \/ LikeMatch(r.description, <<"%">> \o keywords[n] \o <<"%">>, database.collation)
        /\ r.status \in StatusAllowed}

\* the rows LIMIT lets through
KeywordLimit == 20

\* What MATCH(title, description) AGAINST (... IN BOOLEAN MODE) can select:
\* the index holds the words its tokenizer found, so of the accepted rows
\* that hold a keyword any may be matched or missed.
FulltextMatches(database, keywords) ==
    SUBSET {r \in database.project_requirement :
               /\ r.status \in StatusAllowed
               /\ \E n \in 1..Len(keywords) :
                     LikeMatch(r.title \o r.description, <<"%">> \o keywords[n] \o <<"%">>, "ci")}

\* the relevance MATCH ... AGAINST reports for a matched row: a positive
\* number of the engine, here a different one for every row
Relevance(row) == 1 + row.id

\* ORDER BY score DESC on rows with different scores
RECURSIVE OrderByScoreDesc(_)
OrderByScoreDesc(rows) ==
    IF rows = {} THEN <<>>
    ELSE LET top == CHOOSE r \in rows : \A q \in rows : Relevance(q) <= Relevance(r)
         IN  <<top>> \o OrderByScoreDesc(rows \ {top})

\* how a call of search_projects_fulltext can go wrong: nothing fails,
\* get_db_connection raises, the full-text query raises, the LIKE query raises
KeywordFaults == {"none", "connection", "fulltext_query", "like_query"}

\* search_projects_fulltext(keywords): every value the call can return when
\* the full-text query selects the rows matched. Without keywords it returns [] at once; get_db_connection is called
\* before the try block; an error inside the try block is printed and the
\* results, still empty, are returned.
search_projects_fulltext(database, keywords, matched, fault) ==
    IF keywords = <<>> THEN {Returned(<<>>)}
    ELSE IF fault = "connection" THEN {Raised}
    ELSE IF fault = "fulltext_query" THEN {Returned(<<>>)}
    ELSE IF matched # {}
    THEN LET rows == Slice(OrderByScoreDesc(matched), KeywordLimit)
         IN  {Returned([i \in 1..Len(rows) |->
                           Candidate(rows[i], Relevance(rows[i]), "fulltext")])}
    ELSE IF fault = "like_query" THEN {Returned(<<>>)}
    ELSE {Returned([i \in 1..Len(Slice(rows, KeywordLimit)) |->
                       Candidate(rows[i], 1, "like_fallback")]) :
             rows \in RowOrders(LikeScan(database, keywords))}

\* ------------------------------ the keyword track on the tables of a run
\* the keywords of a query at most
MaxKeywords == 2

\* the keywords extract_keywords can hand over
Keywords == {<<"a", "b">>, <<"a", "_">>, <<"b">>, <<"f">>}

\* the relational store: a store of requirements whose texts hold the
\* keywords in different ways, and one of six accepted requirements that
\* all hold one keyword; the columns compare in either way
KeywordDbs ==
    {[project_requirement |->
          {Requirement(1, "completed"), Requirement(2, "in_progress"),
           Requirement(4, "under_review"), Requirement(5, "completed"),
           Requirement(10, "draft")},
      project_requirement_tag1 |-> {}, project_requirement_tag2 |-> {},
      collation |-> c] : c \in Collations}
    \cup {[project_requirement |-> {Requirement(10 + i, "completed") : i \in 1..6},
           project_requirement_tag1 |-> {}, project_requirement_tag2 |-> {},
           collation |-> "ci"]}

InitKeyword ==
    /\ StoresEmpty
    /\ SwapIdle
    /\ grun = NoRun
    /\ gstate \in {[keywords |-> k] : k \in Lists(Keywords, MaxKeywords)}
    /\ tasks = EmptyDict
    /\ order = <<>>
    /\ runs = EmptyDict
    /\ db \in KeywordDbs

\* track_keyword_recall on the state: search_projects_fulltext is invoked
\* with the keywords ("k": 5 is no parameter of the tool and is dropped), and
\* its list is returned under keyword_candidates
KeywordRecall(matched, fault) ==
    /\ lastOp.op # "search_projects_fulltext"
    /\ "keyword_candidates" \notin DOMAIN gstate
    /\ matched \in FulltextMatches(db, DictGetD(gstate, "keywords", <<>>))
    /\ \E results \in search_projects_fulltext(db, DictGetD(gstate, "keywords", <<>>),
                                               matched, fault) :
          /\ gstate' = IF results.raised THEN gstate
                       ELSE ApplyUpdate("student_workflow", gstate,
                                        [keyword_candidates |-> WithSource(results.value, "keyword")])
          /\ lastOp' = Op("search_projects_fulltext", None, None,
                          IF results.raised THEN "raised" ELSE "returned",
                          [fault |-> fault, fulltext_rows |-> {r.id : r \in matched}])
    /\ UNCHANGED <<storeVars, swapVars, grun, tasks, order, runs, db>>

\* one call per run of the track
NextKeyword ==
    /\ lastOp.op = "init"
    /\ \E matched \in SUBSET db.project_requirement, fault \in KeywordFaults :
          KeywordRecall(matched, fault)

\* The keyword track on every list of keywords.
SpecKeyword == InitKeyword /\ [][NextKeyword]_vars

\* ------------------------------------------- search_projects_semantic
\* the hits of a similarity search at most
MaxHits == 3

\* the project_id a hit carries in its metadata: 0 stands for a hit without
\* one, 99 for an id the relational store has no row of
HitIds == {0, 1, 2, 10, 99}

\* a hit of similarity_search_with_score: the metadata and the score
Hits ==
    {[project_id |-> p, score |-> sc] : p \in HitIds, sc \in {1, 2}}
        \ {[project_id |-> p, score |-> 2] : p \in HitIds \ {1}}

\* project_ids: the ids of the hits that carry one
ProjectIds(docs) == {docs[i].project_id : i \in {i \in 1..Len(docs) : docs[i].project_id # 0}}

\* milvus_matches[pid] = {"score": score, ...}: a later hit of an id
\* replaces an earlier one
MilvusMatches(docs) ==
    [pid \in ProjectIds(docs) |->
        LET last == CHOOSE i \in 1..Len(docs) :
                        /\ docs[i].project_id = pid
                        /\ \A j \in (i + 1)..Len(docs) : docs[j].project_id # pid
        IN  docs[last].score]

\* Faulty variant: the rows are fetched by id alone
SemanticFetch_m(database, project_ids) ==
    {r \in database.project_requirement : r.id \in project_ids}

\* SELECT ... WHERE id IN (project_ids) AND status IN (...)
SemanticFetch(database, project_ids) ==
    {r \in database.project_requirement :
        r.id \in project_ids /\ r.status \in StatusAllowed}

\* what can fail in a call: building the vector store, the similarity
\* search, the connection to the relational store, its query
SemanticFaults == {"none", "store", "search", "connection", "query"}

\* search_projects_semantic(query): every value the call can return when
\* the similarity search answers docs. get_milvus_store is called before
\* the handler; every later error is caught and leaves results empty, since
\* results are appended after fetchall only.
search_projects_semantic(database, docs, fault) ==
    IF fault = "store" THEN {Raised}
    ELSE IF fault = "search" THEN {Returned(<<>>)}
    ELSE IF ProjectIds(docs) = {} THEN {Returned(<<>>)}
    ELSE IF fault \in {"connection", "query"} THEN {Returned(<<>>)}
    ELSE {Returned([i \in 1..Len(rows) |->
                       Candidate(rows[i], MilvusMatches(docs)[rows[i].id], "semantic")]) :
             rows \in RowOrders(SemanticFetch(database, ProjectIds(docs)))}

\* the relational store of the semantic track: two accepted requirements
\* and a draft
SemanticDb ==
    [project_requirement |->
         {Requirement(1, "completed"), Requirement(2, "in_progress"),
          Requirement(10, "draft")},
     project_requirement_tag1 |-> {}, project_requirement_tag2 |-> {},
     collation |-> "ci"]

InitSemantic ==
    /\ StoresEmpty
    /\ SwapIdle
    /\ grun = NoRun
    /\ gstate = [user_input |-> <<"q">>]
    /\ tasks = EmptyDict
    /\ order = <<>>
    /\ runs = EmptyDict
    /\ db = SemanticDb

\* track_semantic_recall on the state: search_projects_semantic is invoked
\* with the user input ("k": 5 is no parameter of the tool and is dropped),
\* and its list is returned under semantic_candidates
SemanticRecall(docs, fault) ==
    /\ lastOp.op # "search_projects_semantic"
    /\ \E results \in search_projects_semantic(db, docs, fault) :
          /\ gstate' = IF results.raised THEN gstate
                       ELSE ApplyUpdate("student_workflow", gstate,
                                        [semantic_candidates |-> WithSource(results.value, "semantic")])
          /\ lastOp' = Op("search_projects_semantic", None, None,
                          IF results.raised THEN "raised" ELSE "returned",
                          [fault |-> fault, docs |-> docs])
    /\ UNCHANGED <<storeVars, swapVars, grun, tasks, order, runs, db>>

\* one call per run of the track
NextSemantic ==
    /\ lastOp.op = "init"
    /\ \E docs \in Lists(Hits, MaxHits), fault \in SemanticFaults : SemanticRecall(docs, fault)

\* The semantic track on every answer of the similarity search.
SpecSemantic == InitSemantic /\ [][NextSemantic]_vars

\* ------------------------------------------ router_node on every answer
\* the last user message of a turn: without digits, with two digits, with a
\* run of digits after a shorter one, and with zeros
UserTexts ==
    {<<"q">>, <<"i", "d", "1", "2">>, <<"1", "2", "a", "4", "5", "6", "7">>,
     <<"0", "0", "0">>}

InitRouter ==
    /\ StoresEmpty
    /\ SwapIdle
    /\ grun = NoRun
    /\ gstate \in {[messages |-> <<HumanMessage(text)>>] : text \in UserTexts}
    /\ tasks = EmptyDict
    /\ order = <<>>
    /\ runs = EmptyDict
    /\ db = GraphDb

\* router_node on the state of a turn, its update merged into the state
Route(outcome) ==
    /\ lastOp.op # "router_node"
    /\ LET routed == router_node(gstate, outcome)
       IN  /\ gstate' = IF routed.kind = "raise" THEN gstate
                        ELSE ApplyUpdate("master", gstate, routed.update)
           /\ lastOp' = Op("router_node", None, None,
                           IF routed.kind = "raise" THEN "raised" ELSE "returned",
                           outcome)
    /\ UNCHANGED <<storeVars, swapVars, grun, tasks, order, runs, db>>

\* one call per turn
NextRouter ==
    /\ lastOp.op = "init"
    /\ \E outcome \in ClassifierOutcomes : Route(outcome)

\* The route step on every outcome of the classifier call.
SpecRouter == InitRouter /\ [][NextRouter]_vars

\* ------------------------------------------------ the publisher graph
\* the state a turn of the publisher starts on: the message of the turn on
\* what the checkpoint of the thread holds (a file, its parsed data, the
\* state of the publisher agent)
PublisherInputs ==
    {[messages |-> <<HumanMessage(Upload(<<"q">>, file))>>,
      file_path |-> path,
      parsed_file_data |-> parsed,
      publisher_state |-> state] :
        file \in Files, path \in {None, "f"}, parsed \in {NoneObj, ParsedFile},
        state \in {NoneObj} \cup PublisherStates}

\* publisher_main_app.invoke(input): the run starts with router as its only
\* task
PublisherRunStart(input) ==
    /\ grun.status = "idle"
    /\ grun' = [graph |-> "publisher", status |-> "running", step |-> 1]
    /\ gstate' = input
    /\ tasks' = [s \in {EntryPoint("publisher")} |-> Task("running", EmptyDict)]
    /\ order' = <<>>
    /\ runs' = [s \in {EntryPoint("publisher")} |-> 1]
    /\ lastOp' = Op("run", None, None, "started", [step |-> EntryPoint("publisher")])
    /\ UNCHANGED <<storeVars, swapVars, db>>

NextPublisher ==
    \/ \E input \in PublisherInputs : PublisherRunStart(input)
    \/ \E step \in RunningTasks : \E outcome \in StepOutcomes(step, gstate, db) :
          StepReturn(step, outcome)
    \/ \E step \in RunningTasks : StepRaise(step)
    \/ \E step \in RunningTasks : StepHang(step)
    \/ Commit

\* The scheduler running the publisher graph once on every state of a turn.
SpecPublisher == InitGraph /\ [][NextPublisher]_vars

\* ------------------------------------------- per_req_config_modifier
\* a dict of strings from the pairs whose value is given (None: no entry)
DictOf(pairs) ==
    [k \in {pairs[i][1] : i \in {i \in 1..Len(pairs) : pairs[i][2] # None}} |->
        pairs[CHOOSE i \in 1..Len(pairs) : pairs[i][1] = k][2]]

\* a request: its headers, its query parameters and the attributes a
\* middleware has set on request.state
Request(x_thread_id, thread_id, query, injected) ==
    [headers |-> DictOf(<<<<"x-thread-id", x_thread_id>>, <<"thread-id", thread_id>>>>),
     query_params |-> DictOf(<<<<"thread_id", query>>>>),
     state |-> DictOf(<<<<"thread_id", injected>>>>)]

\* a or b of Python on optional strings
Or(a, b) == IF Truthy(a) THEN a ELSE b

\* Faulty variant: the query parameter is looked at before the headers
per_req_config_modifier_m(config, request) ==
    LET configurable == DictGetD(config, "configurable", [k \in {} |-> None])
        header_thread_id == Or(DictGet(request.headers, "x-thread-id"),
                               DictGet(request.headers, "thread-id"))
        query_thread_id == DictGet(request.query_params, "thread_id")
    IN  IF Truthy(query_thread_id)
        THEN DictSet(config, "configurable", DictSet(configurable, "thread_id", query_thread_id))
        ELSE IF Truthy(header_thread_id)
        THEN DictSet(config, "configurable", DictSet(configurable, "thread_id", header_thread_id))
        ELSE IF "thread_id" \notin DOMAIN configurable /\ "thread_id" \in DOMAIN request.state
        THEN DictSet(config, "configurable",
                     DictSet(configurable, "thread_id", request.state["thread_id"]))
        ELSE DictSet(config, "configurable", configurable)

\* per_req_config_modifier(config, request)
per_req_config_modifier(config, request) ==
    LET configurable == DictGetD(config, "configurable", [k \in {} |-> None])
        header_thread_id == Or(DictGet(request.headers, "x-thread-id"),
                               DictGet(request.headers, "thread-id"))
        query_thread_id == DictGet(request.query_params, "thread_id")
    IN  IF Truthy(header_thread_id)
        THEN DictSet(config, "configurable", DictSet(configurable, "thread_id", header_thread_id))
        ELSE IF Truthy(query_thread_id)
        THEN DictSet(config, "configurable", DictSet(configurable, "thread_id", query_thread_id))
        ELSE IF "thread_id" \notin DOMAIN configurable /\ "thread_id" \in DOMAIN request.state
        THEN DictSet(config, "configurable",
                     DictSet(configurable, "thread_id", request.state["thread_id"]))
        ELSE DictSet(config, "configurable", configurable)

\* the configs langserve hands over: without "configurable", or with one
\* that holds a thread id (possibly empty), a checkpoint id, both or nothing
RequestConfigs ==
    {[k \in {} |-> NoneObj]}
        \cup {[configurable |-> Configurable(t, c)] : t \in {None, "", "c"}, c \in {None, "k"}}

\* the requests: every source of a thread id absent, empty or given
Requests ==
    {Request(x, h, q, i) :
        x \in {None, "", "x"}, h \in {None, "", "h"}, q \in {None, "", "q"},
        i \in {None, "", "s"}}

InitResolve ==
    /\ StoresEmpty
    /\ SwapIdle
    /\ grun = NoRun
    /\ gstate \in {[config |-> c, request |-> r] : c \in RequestConfigs, r \in Requests}
    /\ tasks = EmptyDict
    /\ order = <<>>
    /\ runs = EmptyDict
    /\ db = EmptyDb

\* langserve calls the modifier on the config of the request
Resolve ==
    /\ lastOp.op = "init"
    /\ gstate' = [gstate EXCEPT !.config = per_req_config_modifier(gstate.config, gstate.request)]
    /\ lastOp' = Op("per_req_config_modifier", None, None, "returned", gstate.config)
    /\ UNCHANGED <<storeVars, swapVars, grun, tasks, order, runs, db>>

\* The thread id of a request on every combination of its sources.
SpecResolve == InitResolve /\ [][Resolve]_vars

\* ------------------------------------- the retrieval of project_qa_node
\* Python values that serve as dict keys: an int and a str are different
\* keys, also when they print the same
PyInt(n) == [int |-> n]
PyStr(text) == [str |-> text]
\* str(k)
Str(k) == IF "int" \in DOMAIN k THEN PyStr(ToString(k.int)) ELSE k

\* the documents of a search at most
MaxDocs == 2

\* the documents a collection can answer with: the project_id of the
\* metadata is an integer, the text is one of two
Docs ==
    {[project_id |-> PyInt(n), page_content |-> c] : n \in {1, 2}, c \in {"c1", "c2"}}

\* what can fail in a retrieval: building the vector store, the search
RetrievalFaults == {"none", "store", "search"}

\* the body shared by retrieve_project_chunks and retrieve_project_summary:
\* temp_chunks holds a list for every requested id, the documents whose
\* project_id is a requested id are appended in order, and the keys are
\* turned into strings; get_milvus_store is called before the handler
RECURSIVE ChunksOf(_, _)
ChunksOf(docs, pid) ==
    IF docs = <<>> THEN <<>>
    ELSE (IF Head(docs).project_id = pid THEN <<Head(docs).page_content>> ELSE <<>>)
             \o ChunksOf(Tail(docs), pid)

retrieve_project_chunks(project_ids, docs, fault) ==
    IF project_ids = <<>> THEN Returned([k \in {} |-> <<>>])
    ELSE IF fault = "store" THEN Raised
    ELSE LET requested == {project_ids[i] : i \in 1..Len(project_ids)}
             temp_chunks == [pid \in requested |->
                                IF fault = "search" THEN <<>> ELSE ChunksOf(docs, pid)]
         IN  Returned([k \in {Str(pid) : pid \in requested} |->
                          temp_chunks[CHOOSE pid \in requested : Str(pid) = k]])

retrieve_project_summary(project_ids, docs, fault) ==
    retrieve_project_chunks(project_ids, docs, fault)

\* Dual retrieval of project_qa_node for the target id of the state: the
\* detailed documents first, target_id looked up in what the tool returned,
\* then the summaries when that list is empty. The value tells which
\* searches ran, the chunks and their source; a tool that raises ends it.
project_qa_retrieval(target_id, raw, raw_fault, summaries, summary_fault) ==
    LET context_chunks == retrieve_project_chunks(<<target_id>>, raw, raw_fault)
        first == IF context_chunks.raised THEN <<>>
                 ELSE DictGetD(context_chunks.value, target_id, <<>>)
        summary_chunks == retrieve_project_summary(<<target_id>>, summaries, summary_fault)
        second == IF summary_chunks.raised THEN <<>>
                  ELSE DictGetD(summary_chunks.value, target_id, <<>>)
    IN  IF context_chunks.raised THEN Raised
        ELSE IF first # <<>>
        THEN Returned([chunks_list |-> first, source |-> "Detailed Documents",
                       summary_searched |-> FALSE])
        ELSE IF summary_chunks.raised THEN Raised
        ELSE Returned([chunks_list |-> second, source |-> "Project Summary",
                       summary_searched |-> TRUE])

\* the target ids router_node can write: the integer it parsed from the
\* user message or found in the classifier's object, or the string an
\* object carried
TargetIds == {PyInt(1), PyStr("1")}

InitProjectQa ==
    /\ StoresEmpty
    /\ SwapIdle
    /\ grun = NoRun
    /\ gstate \in {[target_project_id |-> t] : t \in TargetIds}
    /\ tasks = EmptyDict
    /\ order = <<>>
    /\ runs = EmptyDict
    /\ db = EmptyDb

\* project_qa_node up to the context of its answer
ProjectQaRetrieve(raw, raw_fault, summaries, summary_fault) ==
    /\ LET result == project_qa_retrieval(gstate["target_project_id"], raw, raw_fault,
                                          summaries, summary_fault)
       IN  /\ gstate' = IF result.raised THEN gstate
                        ELSE [target_project_id |-> gstate["target_project_id"],
                              context |-> result.value]
           /\ lastOp' = Op("project_qa_node", None, None,
                           IF result.raised THEN "raised" ELSE "returned",
                           [raw |-> raw, raw_fault |-> raw_fault,
                            summaries |-> summaries, summary_fault |-> summary_fault])
    /\ UNCHANGED <<storeVars, swapVars, grun, tasks, order, runs, db>>

\* one question per run
NextProjectQa ==
    /\ lastOp.op = "init"
    /\ \E raw \in UNION {[1..m -> Docs] : m \in 0..MaxDocs},
          summaries \in UNION {[1..m -> Docs] : m \in 0..1},
          raw_fault \in RetrievalFaults, summary_fault \in RetrievalFaults :
            ProjectQaRetrieve(raw, raw_fault, summaries, summary_fault)

\* The retrieval of project Q&A on every answer of the two collections.
SpecProjectQa == InitProjectQa /\ [][NextProjectQa]_vars

\* ------------------------------------------ the publish sub-flow (agent)
\* publisher_app: chat, then by should_continue the tool executor, the tag
\* recommendation or the end; both tool steps lead back to chat. The graph
\* is compiled without an interrupt.

\* the supersteps of a run at most: neither compile() nor the invoke of
\* publisher_bridge_node sets recursion_limit, so LangGraph's default holds,
\* and a run with a step left to take after that many ends with
\* GraphRecursionError
RecursionLimit == 25

\* the responses with tool calls that the free model gives in a run at most
MaxToolRounds == 2

\* a message of the sub-flow: confirms marks a user message that explicitly
\* confirms the write
AgentMessage(type, tool_calls, tool_call_id, name, confirms) ==
    [type |-> type, tool_calls |-> tool_calls, tool_call_id |-> tool_call_id,
     name |-> name, confirms |-> confirms]
ToolCall(name, id) == [name |-> name, id |-> id]
ToolMessage(tool_call_id, name) == AgentMessage("tool", <<>>, tool_call_id, name, FALSE)

\* the lists of tool names a response can carry
CallShapes ==
    {<<>>, <<"save_requirement">>, <<"recommend_tags">>,
     <<"recommend_tags", "save_requirement">>, <<"save_requirement", "recommend_tags">>}

\* how the model behaves in a run: free in each response, or the same tool
\* calls in every response
ModelProfiles ==
    {"free", "always_save", "always_recommend", "always_both"}
ProfileShape(profile) ==
    CASE profile = "always_save"      -> <<"save_requirement">>
      [] profile = "always_recommend" -> <<"recommend_tags">>
      [] OTHER                        -> <<"recommend_tags", "save_requirement">>

\* chat_node: the response of the model is appended; the call ids are new
agent_chat_node(state, names) ==
    LET response ==
            AgentMessage("ai",
                         [i \in 1..Len(names) |->
                             ToolCall(names[i], "call_" \o ToString(2 * state.step + i))],
                         None, None, FALSE)
    IN  [messages |-> <<response>>]

\* should_continue: tag_recommendation when any call of the last message is
\* recommend_tags, tools when it has other calls only, END with no call
should_continue(state) ==
    LET last_message == state.messages[Len(state.messages)]
    IN  IF last_message.tool_calls # <<>>
        THEN IF \E i \in 1..Len(last_message.tool_calls) :
                    last_message.tool_calls[i].name = "recommend_tags"
             THEN "tag_recommendation"
             ELSE "tools"
        ELSE "END"

\* tag_recommendation_node: one tool message, for the first recommend_tags
\* call of the last message
tag_recommendation_node(state) ==
    LET last_message == state.messages[Len(state.messages)]
        calls == last_message.tool_calls
        found == {i \in 1..Len(calls) : calls[i].name = "recommend_tags"}
        tool_call_id ==
            IF found = {} THEN "unknown"
            ELSE calls[CHOOSE i \in found : \A j \in found : i <= j].id
    IN  [messages |-> <<ToolMessage(tool_call_id, "recommend_tags")>>]

\* ToolNode([save_requirement]): every call of the last message is run and
\* answered with its id; save_requirement commits its write unless it fails
\* (saved tells per call)
tool_node(state, saved) ==
    LET last_message == state.messages[Len(state.messages)]
        calls == last_message.tool_calls
    IN  [messages |-> [i \in 1..Len(calls) |-> ToolMessage(calls[i].id, calls[i].name)],
         writes |-> Cardinality({i \in 1..Len(calls) :
                                    calls[i].name = "save_requirement" /\ saved[i]})]

\* whether the run has no superstep left
OutOfSteps_m(state) == FALSE
OutOfSteps(state) == state.step >= RecursionLimit

\* a run of publisher_app as publisher_bridge_node starts it: the messages
\* of the turn end with the user's message
InitAgent ==
    /\ StoresEmpty
    /\ SwapIdle
    /\ grun = NoRun
    /\ gstate \in {[messages |-> <<AgentMessage("human", <<>>, None, None, c)>>,
                    profile |-> p, node |-> "chat", step |-> 0, rounds |-> 0,
                    writes |-> 0, chats |-> 0] :
                      c \in BOOLEAN, p \in ModelProfiles}
    /\ tasks = EmptyDict
    /\ order = <<>>
    /\ runs = EmptyDict
    /\ db = EmptyDb

AgentNodes == {"chat", "tools", "tag_recommendation"}

\* the superstep of chat and the branch taken after it
AgentChat(names) ==
    /\ gstate.node = "chat"
    /\ ~OutOfSteps(gstate)
    /\ IF gstate.profile = "free"
       THEN names # <<>> => gstate.rounds < MaxToolRounds
       ELSE names = ProfileShape(gstate.profile)
    /\ LET update == agent_chat_node(gstate, names)
           after == [gstate EXCEPT !.messages = @ \o update.messages]
       IN  gstate' = [after EXCEPT !.node = should_continue(after),
                                   !.step = @ + 1,
                                   !.chats = @ + 1,
                                   !.rounds = IF names # <<>> /\ gstate.profile = "free"
                                              THEN @ + 1 ELSE @]
    /\ lastOp' = Op("chat", None, None, "returned", NoneObj)
    /\ UNCHANGED <<storeVars, swapVars, grun, tasks, order, runs, db>>

\* the model call of chat_node raises: the run ends with the error
AgentChatRaise ==
    /\ gstate.node = "chat"
    /\ ~OutOfSteps(gstate)
    /\ gstate' = [gstate EXCEPT !.node = "raised"]
    /\ lastOp' = Op("chat", None, None, "raised", NoneObj)
    /\ UNCHANGED <<storeVars, swapVars, grun, tasks, order, runs, db>>

\* the superstep of the tool executor, then chat
AgentTools(saved) ==
    /\ gstate.node = "tools"
    /\ ~OutOfSteps(gstate)
    /\ LET update == tool_node(gstate, saved)
       IN  gstate' = [gstate EXCEPT !.messages = @ \o update.messages,
                                    !.writes = @ + update.writes,
                                    !.node = "chat",
                                    !.step = @ + 1]
    /\ lastOp' = Op("tools", None, None, "returned", NoneObj)
    /\ UNCHANGED <<storeVars, swapVars, grun, tasks, order, runs, db>>

\* the superstep of the tag recommendation, then chat
AgentTagRecommendation ==
    /\ gstate.node = "tag_recommendation"
    /\ ~OutOfSteps(gstate)
    /\ LET update == tag_recommendation_node(gstate)
       IN  gstate' = [gstate EXCEPT !.messages = @ \o update.messages,
                                    !.node = "chat",
                                    !.step = @ + 1]
    /\ lastOp' = Op("tag_recommendation", None, None, "returned", NoneObj)
    /\ UNCHANGED <<storeVars, swapVars, grun, tasks, order, runs, db>>

\* a step is left to take and the limit is reached: GraphRecursionError
AgentOutOfSteps ==
    /\ gstate.node \in AgentNodes
    /\ OutOfSteps(gstate)
    /\ gstate' = [gstate EXCEPT !.node = "GraphRecursionError"]
    /\ lastOp' = Op("publisher_app", None, None, "raised", NoneObj)
    /\ UNCHANGED <<storeVars, swapVars, grun, tasks, order, runs, db>>

NextAgent ==
    \/ \E names \in CallShapes : AgentChat(names)
    \/ AgentChatRaise
    \/ \E saved \in [1..2 -> BOOLEAN] : AgentTools(saved)
    \/ AgentTagRecommendation
    \/ AgentOutOfSteps

\* The runs of the publish sub-flow on every behaviour of its model.
SpecPublisherAgent == InitAgent /\ [][NextAgent]_vars

\* ------------------------------------------ the turns of one thread
\* the turns of a thread at most
MaxTurns == 2

\* the user messages the state of the thread holds: one per turn
HumanTurns(state) ==
    Cardinality({i \in 1..Len(DictGetD(state, "messages", <<>>)) :
                    state["messages"][i].type = "human"})

\* A further turn on the thread: the graph is invoked with the user's
\* message on what the checkpoint of the thread holds (the state of the
\* last completed superstep, also after a run that ended with an error);
\* the message goes through the reducer of messages, the run starts at the
\* entry point.
ThreadTurn(graph, content) ==
    /\ grun.status \in {"idle", "done", "error"}
    /\ HumanTurns(gstate) < MaxTurns
    /\ grun' = [graph |-> graph, status |-> "running", step |-> 1]
    /\ gstate' = ApplyUpdate(graph, gstate, [messages |-> <<HumanMessage(content)>>])
    /\ tasks' = [s \in {EntryPoint(graph)} |-> Task("running", EmptyDict)]
    /\ order' = <<>>
    /\ runs' = [s \in {EntryPoint(graph)} |-> 1]
    /\ lastOp' = Op("run", None, None, "started", [step |-> EntryPoint(graph)])
    /\ UNCHANGED <<storeVars, swapVars, db>>

NextPublisherTurns ==
    \/ \E file \in Files : ThreadTurn("publisher", Upload(<<"q">>, file))
    \/ \E step \in RunningTasks : \E outcome \in StepOutcomes(step, gstate, db) :
          StepReturn(step, outcome)
    \/ \E step \in RunningTasks : StepRaise(step)
    \/ Commit

\* The turns of one publisher thread from its first message on.
SpecPublisherTurns == InitGraph /\ [][NextPublisherTurns]_vars

NextTurns ==
    \/ \E text \in TurnTexts : ThreadTurn("master", text)
    \/ \E step \in RunningTasks : \E outcome \in StepOutcomes(step, gstate, db) :
          StepReturn(step, outcome)
    \/ \E step \in RunningTasks : StepRaise(step)
    \/ Commit

\* The turns of one thread of the master graph from its first message on.
SpecTurns == InitGraph /\ [][NextTurns]_vars

\* recommendation_worker: the compiled student workflow is run on the state
\* of the master graph, whose messages hold the turns of the thread and
\* whose input fields prep_recommendation_node has written
WorkerStart(messages) ==
    /\ grun.status = "idle"
    /\ grun' = [graph |-> "student_workflow", status |-> "running", step |-> 1]
    /\ gstate' = [RunInput("student_workflow") EXCEPT !.messages = messages,
                                                      !.student_id = 700]
    /\ tasks' = [s \in {EntryPoint("student_workflow")} |-> Task("running", EmptyDict)]
    /\ order' = <<>>
    /\ runs' = [s \in {EntryPoint("student_workflow")} |-> 1]
    /\ lastOp' = Op("run", None, None, "started", [step |-> EntryPoint("student_workflow")])
    /\ UNCHANGED <<storeVars, swapVars, db>>

\* the messages of a thread when the worker starts: those of the first turn
\* or of a second one after a chat turn
WorkerMessages ==
    {<<HumanMessage(<<"q">>)>>,
     <<HumanMessage(<<"q">>), AIMessage(None), HumanMessage(<<"q">>)>>}

NextWorker ==
    \/ \E messages \in WorkerMessages : WorkerStart(messages)
    \/ \E step \in RunningTasks : \E outcome \in StepOutcomes(step, gstate, db) :
          StepReturn(step, outcome)
    \/ \E step \in RunningTasks : StepRaise(step)
    \/ \E step \in RunningTasks : StepHang(step)
    \/ Commit

\* The student workflow run as the recommendation step of a turn.
SpecWorker == InitGraph /\ [][NextWorker]_vars

\* ============================================================ properties
LatestConfig(t) == Configurable(t, None)

\* the thread has no key at all in the cache-backed store
ThreadHasNoCheckpoints(t) ==
    /\ LatestKey(t) \notin DOMAIN store
    /\ \A c \in AllIds : CheckpointKey(t, c) \notin DOMAIN store

\* a step of a put on thread t (or a step that changes nothing after one)
PutStepOn(t) == lastOp'.op = "put" /\ lastOp'.thread = t

\* C1: once a put on a thread has returned, get(thread, none) returns exactly
\* the tuple written by the most recent completed put on that thread. (Threads
\* are the resolved, non-empty thread ids; get_tuple treats an empty thread id
\* as no thread id.)
C1_CheckpointVisibility ==
    \A t \in Threads :
        lastPut[t] # NoneObj => GetTuple(LatestConfig(t)) = lastPut[t]

\* a second put on a thread has just returned
C1_Witness ==
    /\ lastOp.op = "put" /\ lastOp.status = "returned"
    /\ lastPut[lastOp.thread].parent_config # NoneObj
    /\ lastPut[lastOp.thread].checkpoint.id = lastOp.ckpt

\* C2: turns of one thread are serialized at the Router boundary: no turn of
\* a thread loads its parent checkpoint while another turn of that thread is
\* between its load and the end of its put.
C2_TurnsSerialized ==
    \A p, q \in Procs :
        (p # q /\ InFlight(p) /\ InFlight(q)) => ThreadOf(p) # ThreadOf(q)

\* C3: in every reachable state, also between the two writes of a put and
\* after a crash between them, a thread's latest pointer, if set, names a
\* checkpoint whose snapshot exists under that thread.
C3_LatestNamesSnapshot ==
    \A t \in Threads :
        LatestKey(t) \in DOMAIN store =>
            CheckpointKey(t, Decode(store[LatestKey(t)])) \in DOMAIN store

\* a run crashed between its two writes, on a thread that has a latest pointer
C3_Witness ==
    /\ lastOp.op = "crash" /\ lastOp.status = "snapshot_written"
    /\ LatestKey(lastOp.thread) \in DOMAIN store
    /\ CheckpointKey(lastOp.thread, lastOp.ckpt) \in DOMAIN store
    /\ Decode(store[LatestKey(lastOp.thread)]) # lastOp.ckpt

\* everything a reader can obtain about thread t from the two stores
Reads(t) ==
    [redis |-> [c \in AllIds \cup {None} |-> GetTuple(Configurable(t, c))],
     pg |-> PgGetTuple(t),
     rows |-> PgRowsOf(pgTables, t)]

\* C4: a delete of thread A, and a write of a put on thread A, leave every
\* read of every other thread B as it was.
C4_ThreadIsolation ==
    [][\A B \in Threads :
          (lastOp'.op \in {"delete", "put"} /\ lastOp'.thread # B) => Reads(B)' = Reads(B)]_vars

\* some checkpoint that was written to Postgres is in none of its tables any more
DeletedSomething ==
    \E n \in 1..pgNextId :
        \A t \in Threads : Row(t, PgId(n)) \notin PgRowsOf(pgTables, t)

\* a delete removed the rows of one thread while another thread has
\* checkpoints in Postgres and in the cache-backed store
C4_Witness ==
    /\ lastOp.op = "delete" /\ lastOp.status = "success"
    /\ DeletedSomething
    /\ \E B \in Threads \ {lastOp.thread} :
          /\ PgGetTuple(B) # NoneObj
          /\ GetTuple(LatestConfig(B)) # NoneObj

\* C5: delete_chat_history is all-or-nothing: on success no table holds a row
\* of the thread and a get of the thread finds nothing; when a step of it
\* fails the tables are as before and the caller gets an error.
C5_DeleteAllOrNothing ==
    [][lastOp'.op = "delete" =>
          IF lastOp'.status = "success"
          THEN /\ PgRowsOf(pgTables', lastOp'.thread) = {}
               /\ PgGetTupleOn(pgTables', lastOp'.thread) = NoneObj
          ELSE /\ lastOp'.status = "http_500"
               /\ pgTables' = pgTables]_vars

\* a delete failed on a thread that has rows in all three tables
C5_Witness ==
    /\ lastOp.op = "delete" /\ lastOp.status = "http_500"
    /\ \E r \in pgTables.checkpoints : r.thread_id = lastOp.thread
    /\ \E r \in pgTables.checkpoint_blobs : r.thread_id = lastOp.thread
    /\ \E r \in pgTables.checkpoint_writes : r.thread_id = lastOp.thread

\* C6: when the store refuses a write of a put, the put raises, and
\* get(thread, none) returns what it returned before: the latest pointer is
\* not advanced to the checkpoint of the failed put.
C6_PutFailureSurfaced ==
    [][\A t \in Threads :
          (PutStepOn(t) /\ lastOp'.value.fault) =>
              /\ lastOp'.status = "raised"
              /\ GetTuple(LatestConfig(t))' = GetTuple(LatestConfig(t))
              /\ C3_LatestNamesSnapshot']_vars

\* the second write of a put failed on a thread that has an earlier checkpoint
C6_Witness ==
    /\ lastOp.op = "put" /\ lastOp.value.fault /\ lastOp.status = "raised"
    /\ CheckpointKey(lastOp.thread, lastOp.ckpt) \in DOMAIN store
    /\ GetTuple(LatestConfig(lastOp.thread)) # NoneObj
    /\ GetTuple(LatestConfig(lastOp.thread)).checkpoint.id # lastOp.ckpt

\* C7: a get on a thread without checkpoints, or with a missing or empty
\* thread id, with or without a checkpoint id, returns not_found and does
\* not raise.
C7_GetMissingThread ==
    /\ (lastOp.op = "get" /\ (~Truthy(lastOp.thread) \/ ThreadHasNoCheckpoints(lastOp.thread)))
          => lastOp.status = "not_found"
    /\ \A c \in GetConfigs :
          LET thread_id == DictGet(c, "thread_id")
          IN  (~Truthy(thread_id) \/ ThreadHasNoCheckpoints(thread_id)) => GetTuple(c) = NoneObj

\* a get by checkpoint id on a thread without checkpoints, the id being one
\* another thread holds
C7_Witness ==
    /\ lastOp.op = "get" /\ lastOp.ckpt = "by_id" /\ lastOp.thread \in Threads
    /\ ThreadHasNoCheckpoints(lastOp.thread)
    /\ \E B \in Threads : GetTuple(LatestConfig(B)) # NoneObj

\* C8: get is read-only: a get leaves every key of the store unchanged, and
\* the result of get(thread, none) changes only by a put on that thread (a
\* step that leaves the store unchanged changes no result of get_tuple).
C8_GetReadOnly ==
    [][/\ lastOp'.op = "get" => store' = store
       /\ store' # store =>
             \A t \in Threads :
                 ~PutStepOn(t) => GetTuple(LatestConfig(t))' = GetTuple(LatestConfig(t))]_vars

\* a get(thread, none) returned a checkpoint
C8_Witness ==
    /\ lastOp.op = "get" /\ lastOp.status = "found"
    /\ lastOp.ckpt = None /\ lastOp.thread \in Threads

\* C9: when the turns of a thread never overlapped, the checkpoint a put
\* makes the latest one records as parent the checkpoint that was latest
\* before (none for the first), so the thread's chain is linear.
C9_ParentIsPreviousLatest ==
    [][\A t \in Threads :
          (PutStepOn(t) /\ lastOp'.status = "returned" /\ store' # store /\ ~overlap[t]) =>
              LET prev == GetTuple(LatestConfig(t))
                  new == GetTuple(LatestConfig(t))'
              IN  /\ new # NoneObj
                  /\ new.checkpoint.id = lastOp'.ckpt
                  /\ new.parent_config = IF prev = NoneObj THEN NoneObj ELSE prev.config]_vars

\* the put of a second turn returned on a thread whose turns never overlapped
C9_Witness ==
    /\ lastOp.op = "put" /\ lastOp.status = "returned"
    /\ ~overlap[lastOp.thread]
    /\ GetTuple(LatestConfig(lastOp.thread)).parent_config # NoneObj
    /\ GetTuple(LatestConfig(lastOp.thread)).checkpoint.messages = 2

\* C10: a snapshot written under (thread, checkpoint id) is never modified: a
\* get with that id returns the same tuple after every later step.
C10_CheckpointImmutable ==
    [][store' # store =>
          \A t \in Threads, c \in AllIds :
              GetTuple(Configurable(t, c)) # NoneObj =>
                  GetTuple(Configurable(t, c))' = GetTuple(Configurable(t, c))]_vars

\* a thread holds a checkpoint and its parent, both readable by id
C10_Witness ==
    \E t \in Threads :
        /\ lastOp.op = "put" /\ lastOp.thread = t /\ lastOp.status = "returned"
        /\ lastPut[t] # NoneObj /\ lastPut[t].parent_config # NoneObj
        /\ GetTuple(lastPut[t].parent_config) # NoneObj
        /\ GetTuple(lastPut[t].config) = lastPut[t]

\* a checkpoint call (get or put) of a run or of the history endpoint
CheckpointCall == lastOp.op \in {"aget_tuple", "aput", "aget_state"}

\* C11: the graphs are compiled once, against a placeholder checkpointer;
\* once the startup swap is through, every checkpoint get and put of every
\* turn of either agent goes to the real checkpointer, no placeholder holds
\* or receives a checkpoint, and each route and each name still refers to
\* the graph object compiled at import (no graph was built again).
C11_SwapReachesEveryTurn ==
    /\ CheckpointCall => lastOp.value.checkpointer = RealCheckpointer
    /\ \A a \in Agents :
          serving[a] # NoneObj => serving[a].checkpointer = RealCheckpointer
    /\ memory = {} /\ DOMAIN store = {}
    /\ DOMAIN objects = DOMAIN ImportedObjects("MemorySaver")
    /\ server.names = ImportedServer.names /\ server.routes = ImportedServer.routes
    /\ \A o \in DOMAIN objects :
          /\ objects[o].workflow = ImportedObjects("MemorySaver")[o].workflow
          /\ server.phase = "imported" => objects[o].checkpointer # RealCheckpointer
          /\ server.phase \in {"serving", "closed"} => objects[o].checkpointer = RealCheckpointer

\* after the swap a turn of the publisher agent, compiled with the
\* PickleRedisSaver, has put its checkpoint, and a turn of the student agent
\* has put one before
C11_Witness ==
    /\ lastOp.op = "aput" /\ lastOp.value.agent = "publisher"
    /\ lastOp.value.checkpointer = RealCheckpointer
    /\ Cardinality(pgTables.checkpoints) = 2
    /\ server.phase = "serving"

\* the state field each recall branch returns its list under
RecallField(branch) ==
    CASE branch = "track_tag_recall" -> "tag_candidates"
      [] branch = "track_semantic_recall" -> "semantic_candidates"
      [] branch = "track_keyword_recall" -> "keyword_candidates"

InRetrieval == grun.graph = "student_workflow"

\* C12: in the retrieval graph the join step (rerank) is not started before
\* each of the three recall branches started by the fan-out has completed
\* and its update is merged; it is started exactly once per run (a run that
\* is done has run it once), and the state it is started on holds the
\* candidate list every branch returned.
C12_JoinWaitsForAllBranches ==
    InRetrieval =>
        /\ Started("rerank") =>
              /\ runs["rerank"] = 1
              /\ \A b \in RecallBranches :
                    /\ Started(b) /\ tasks[b].status = "applied" /\ runs[b] = 1
                    /\ RecallField(b) \in DOMAIN gstate
                    /\ gstate[RecallField(b)] = tasks[b].update[RecallField(b)]
        /\ grun.status = "done" => Started("rerank") /\ tasks["rerank"].status = "applied"

\* the join has run on three non-empty candidate lists and its ranking is
\* merged into the state
C12_Witness ==
    /\ InRetrieval /\ Started("rerank") /\ tasks["rerank"].status = "applied"
    /\ \A b \in RecallBranches : gstate[RecallField(b)] # <<>>
    /\ gstate["ranked_projects"] # <<>>

\* the three branches have returned and the superstep is not yet committed
BranchesReturned ==
    /\ InRetrieval
    /\ \A b \in RecallBranches : Started(b) /\ tasks[b].status = "returned"

\* the state before the fan-out with the update of each branch applied to
\* it on its own
JoinedState ==
    [k \in DOMAIN gstate \cup {RecallField(b) : b \in RecallBranches} |->
        IF \E b \in RecallBranches : k = RecallField(b)
        THEN LET b == CHOOSE b \in RecallBranches : k = RecallField(b)
             IN  tasks[b].update[k]
        ELSE gstate[k]]

\* C13: whatever the order in which the three recall branches complete, the
\* state handed to the join is the same: no two branches write one state
\* field, each branch writes its own field only, and the merge of their
\* updates is the pre-fan-out state with each branch's update applied to it
\* independently of the others.
C13_JoinedStateOrderIndependent ==
    BranchesReturned =>
        /\ \A b \in RecallBranches : DOMAIN tasks[b].update = {RecallField(b)}
        /\ \A b1, b2 \in RecallBranches :
              b1 # b2 => DOMAIN tasks[b1].update \cap DOMAIN tasks[b2].update = {}
        /\ ~WriteConflict(grun.graph, [i \in 1..Len(order) |-> tasks[order[i]].update])
        /\ ApplyWrites(grun.graph, gstate,
                       [i \in 1..Len(order) |-> tasks[order[i]].update]) = JoinedState

\* the branches have completed with the keyword branch first and the tag
\* branch last, each with a non-empty list
C13_Witness ==
    /\ BranchesReturned
    /\ order = <<"track_keyword_recall", "track_semantic_recall", "track_tag_recall">>
    /\ \A b \in RecallBranches : tasks[b].update[RecallField(b)] # <<>>

\* the step that has just raised
RaiseStep == lastOp'.op = "step" /\ lastOp'.status = "raised" /\ grun.status = "running"

\* C14: when a step function raises during a run (of either graph), the run
\* is aborted: the state stays the one of the last completed superstep
\* (neither an update of the raising step nor the updates its siblings had
\* returned are merged), no task is left running and no step is started,
\* and once the run has ended with the error nothing of it changes any more.
C14_RaiseAbortsRun ==
    [][/\ RaiseStep =>
            /\ grun'.status = "error"
            /\ gstate' = gstate
            /\ DOMAIN tasks' = DOMAIN tasks
            /\ runs' = runs
            /\ \A s \in DOMAIN tasks' : tasks'[s].status # "running"
            /\ \E s \in DOMAIN tasks : tasks[s].status = "running" /\ tasks'[s].status = "raised"
       /\ grun.status = "error" => UNCHANGED <<grun, gstate, tasks, order, runs>>]_vars

\* a run has ended with the error of a step after an earlier superstep was
\* merged, while a sibling of the raising step had already returned
C14_Witness ==
    /\ grun.status = "error" /\ grun.step > 1
    /\ \E s \in DOMAIN tasks : tasks[s].status = "raised"
    /\ \E s \in DOMAIN tasks : tasks[s].status = "returned"

\* a recall branch waits for an adapter call that never returns
BranchStuck ==
    /\ InRetrieval
    /\ \E b \in RecallBranches : Started(b) /\ tasks[b].status = "hung"

\* C15: if a recall branch never completes because its adapter call never
\* returns, the run still finishes: once every other task of the run has
\* ended, the run is over or the superstep of the branches can end and
\* release the join, the stuck branch counting as a track without
\* candidates.
C15_StuckBranchRunFinishes ==
    (BranchStuck /\ RunningTasks = {}) =>
        \/ grun.status \in {"done", "error"}
        \/ Barrier(tasks)
        \/ Started("rerank")

\* rerank_node has returned on the state
Reranked == "ranked_projects" \in DOMAIN gstate

\* the score a track returned for a requirement, 0 when it did not return it
ScoreIn(list, id) ==
    IF \E i \in 1..Len(list) : list[i]["id"] = id
    THEN list[CHOOSE i \in 1..Len(list) : list[i]["id"] = id]["score"]
    ELSE 0

\* 0.4 * tag_score + 0.4 * semantic_score + 0.2 * keyword_score, in tenths
FusedScore(state, id) ==
    (4 * ScoreIn(state["tag_candidates"], id))
    + (4 * ScoreIn(state["semantic_candidates"], id))
    + (2 * ScoreIn(state["keyword_candidates"], id))

IdsOf(list) == {list[i]["id"] : i \in 1..Len(list)}

\* C16: for every entity in the union of the three tracks' results, in
\* whatever combination of tracks it appears, rerank computes
\* fused_score = 0.4*tag_score + 0.4*semantic_score + 0.2*keyword_score from
\* the score each track returned for it (0 for a track that did not).
C16_FusedScoreWeights ==
    Reranked =>
        LET merged == MergedCandidates(gstate)
            ranked == gstate["ranked_projects"]
        IN  /\ IdsOf(merged) = IdsOf(gstate["tag_candidates"])
                                 \cup IdsOf(gstate["semantic_candidates"])
                                 \cup IdsOf(gstate["keyword_candidates"])
            /\ \A i \in 1..Len(merged) :
                  FinalScore(merged[i]) = FusedScore(gstate, merged[i]["id"])
            /\ \A i \in 1..Len(ranked) :
                  ranked[i]["final_score"] = FusedScore(gstate, ranked[i]["id"])

\* an entity returned by all three tracks is ranked with 2*0.4 + 1*0.4 +
\* 1*0.2 = 1.4 next to one returned by the tag track alone with 2*0.4 = 0.8
C16_Witness ==
    /\ Reranked
    /\ \E i, j \in 1..Len(gstate["ranked_projects"]) :
          /\ gstate["ranked_projects"][i]["id"] = 1
          /\ gstate["ranked_projects"][i]["final_score"] = 14
          /\ 1 \in IdsOf(gstate["semantic_candidates"]) \cap IdsOf(gstate["keyword_candidates"])
          /\ gstate["ranked_projects"][j]["id"] = 5
          /\ gstate["ranked_projects"][j]["final_score"] = 8

\* the content signature of an entity: its lowercased title and the
\* lowercased first 100 characters of its description
ContentSignature(data) ==
    <<StrLower(data["title"]), StrLower(Slice(data["description"], SignatureLen))>>

\* C18: after rerank no two returned candidates share a content signature,
\* and a returned candidate has the maximal fused_score of the entities
\* that have its signature, whatever the order in which they were met.
C18_OnePerSignatureBestKept ==
    Reranked =>
        LET merged == MergedCandidates(gstate)
            ranked == gstate["ranked_projects"]
        IN  /\ \A i, j \in 1..Len(ranked) :
                  i # j => ContentSignature(ranked[i]) # ContentSignature(ranked[j])
            /\ \A i \in 1..Len(ranked), n \in 1..Len(merged) :
                  ContentSignature(merged[n]) = ContentSignature(ranked[i])
                      => ranked[i]["final_score"] >= FusedScore(gstate, merged[n]["id"])

\* C19: deduplication collapses two entities only if their lowercased
\* titles are equal and the lowercased first 100 characters of their
\* descriptions are equal: while the ranking is not cut at its limit, every
\* pair of title and description prefix met among the candidates is still
\* there among the returned ones.
C19_CollapseOnlyOnEqualSignature ==
    (Reranked /\ Len(gstate["ranked_projects"]) < RankedLimit) =>
        LET merged == MergedCandidates(gstate)
            ranked == gstate["ranked_projects"]
        IN  \A n \in 1..Len(merged) :
                \E i \in 1..Len(ranked) :
                    ContentSignature(ranked[i]) = ContentSignature(merged[n])

\* the candidates left by the deduplication, each with its final_score
Deduplicated(state) == {u.data : u \in {Dedup(<<>>, MergedCandidates(state))[i] :
                                            i \in 1..Len(Dedup(<<>>, MergedCandidates(state)))}}

\* C20: the ranked list is sorted by fused_score in non-increasing order,
\* has at most 15 entries, all of them deduplicated candidates and no one
\* twice, and holds the 15 highest-scoring deduplicated candidates when
\* more than 15 exist (all of them otherwise).
C20_RankedSortedTopFifteen ==
    Reranked =>
        LET ranked == gstate["ranked_projects"]
            all == Deduplicated(gstate)
            returned == {ranked[i] : i \in 1..Len(ranked)}
        IN  /\ \A i, j \in 1..Len(ranked) :
                  i < j => ranked[i]["final_score"] >= ranked[j]["final_score"]
            /\ Len(ranked) <= RankedLimit
            /\ Len(ranked) = IF Cardinality(all) > RankedLimit THEN RankedLimit
                             ELSE Cardinality(all)
            /\ returned \subseteq all
            /\ Cardinality(returned) = Len(ranked)
            /\ \A c \in all \ returned :
                  \A i \in 1..Len(ranked) : ranked[i]["final_score"] >= c["final_score"]

\* more than 15 deduplicated candidates, handed over in an order that is
\* not the one of their scores: 15 are returned, the best one first, and a
\* candidate with a lower score than the last one is left out
C20_Witness ==
    /\ Reranked
    /\ Cardinality(Deduplicated(gstate)) > RankedLimit
    /\ Len(gstate["ranked_projects"]) = RankedLimit
    /\ gstate["ranked_projects"][1]["final_score"] > gstate["ranked_projects"][RankedLimit]["final_score"]
    /\ gstate["tag_candidates"][1]["score"] < gstate["tag_candidates"][2]["score"]
    /\ \E c \in Deduplicated(gstate) :
          c["final_score"] < gstate["ranked_projects"][RankedLimit]["final_score"]

\* search_projects_by_tags has returned its list
TagSearched == lastOp.op = "search_projects_by_tags" /\ lastOp.status = "returned"

\* the different ids of a list
Supplied(ids) == {ids[n] : n \in 1..Len(ids)}

\* the supplied interest ids a requirement has as interest tag, and the
\* supplied skill ids it has as skill tag
InterestMatches(pid) ==
    {x \in Supplied(gstate["interest_ids"]) :
        [requirement_id |-> pid, tag1_id |-> x] \in db.project_requirement_tag1}
SkillMatches(pid) ==
    {x \in Supplied(gstate["skill_ids"]) :
        [requirement_id |-> pid, tag2_id |-> x] \in db.project_requirement_tag2}

\* C17, as the specification states it: the tag track scores an entity with
\* the number of distinct ids of interest_ids united with skill_ids that
\* the entity is tagged with.
C17_ScoreCountsIdsOfUnion ==
    (TagSearched /\ lastOp.value.fault = "none") =>
        \A i \in 1..Len(gstate["tag_candidates"]) :
            LET c == gstate["tag_candidates"][i]
            IN  c["score"] =
                    Cardinality({x \in Supplied(gstate["interest_ids"]) \cup Supplied(gstate["skill_ids"]) :
                        \/ [requirement_id |-> c["id"], tag1_id |-> x] \in db.project_requirement_tag1
                        \/ [requirement_id |-> c["id"], tag2_id |-> x] \in db.project_requirement_tag2})

\* the interest query and the skill query have been run to their end
InterestQueryRan == lastOp.value.fault # "interest_query"
SkillQueryRan ==
    /\ lastOp.value.fault # "skill_query"
    /\ ~(lastOp.value.fault = "interest_query" /\ gstate["interest_ids"] # <<>>)

\* the matches of a requirement the queries that ran have reported
MatchesCounted(pid) ==
    (IF InterestQueryRan THEN Cardinality(InterestMatches(pid)) ELSE 0)
    + (IF SkillQueryRan THEN Cardinality(SkillMatches(pid)) ELSE 0)

\* C17, amended: the tag track scores an entity with the number of distinct
\* supplied interest ids among its interest tags plus the number of
\* distinct supplied skill ids among its skill tags, an id supplied in both
\* lists counting in each; an id supplied twice in a list counts once, a
\* query that raised or was not run counts nothing, and every accepted
\* requirement with a match is returned up to the limit of the list.
C17_ScoreCountsMatchesPerList ==
    TagSearched =>
        LET result == gstate["tag_candidates"]
        IN  /\ \A i \in 1..Len(result) :
                  /\ result[i]["score"] = MatchesCounted(result[i]["id"])
                  /\ result[i]["score"] >= 1
            /\ Len(result) < TagLimit =>
                  \A r \in db.project_requirement :
                      (r.status \in StatusAllowed /\ MatchesCounted(r.id) > 0)
                          => r.id \in IdsOf(result)

\* a requirement matched by two supplied interest ids and by a skill id
\* whose number is also among the interest ids scores 3
C17_Witness ==
    /\ TagSearched
    /\ \E i \in 1..Len(gstate["tag_candidates"]) :
          /\ gstate["tag_candidates"][i]["score"] = 3
          /\ Cardinality(InterestMatches(gstate["tag_candidates"][i]["id"])) = 2
          /\ SkillMatches(gstate["tag_candidates"][i]["id"]) = {1}

\* the number of candidates the specification lets a track hand over
RecallK == 5

\* the lists of the recall tracks
RecallFields == {"tag_candidates", "semantic_candidates", "keyword_candidates"}

\* C21: each recall track hands at most 5 candidates to the fusion step.
C21_TrackHandsAtMostFive ==
    \A f \in RecallFields \cap DOMAIN gstate : Len(gstate[f]) <= RecallK

\* the keyword track has returned its list
KeywordRecalled ==
    /\ lastOp.op = "search_projects_fulltext" /\ lastOp.status = "returned"
    /\ "keyword_candidates" \in DOMAIN gstate

\* C22: the keyword track scores each returned entity with the number of
\* distinct supplied keywords whose lowercase form occurs as a substring of
\* the entity's title concatenated with its description, on the full-text
\* path and on the substring-fallback path.
C22_ScoreCountsKeywords ==
    KeywordRecalled =>
        \A i \in 1..Len(gstate["keyword_candidates"]) :
            LET c == gstate["keyword_candidates"][i]
            IN  c["score"] = Cardinality({k \in Supplied(gstate["keywords"]) :
                                 Contains(c["title"] \o c["description"], StrLower(k))})

\* the full-text query of the call ran and selected no row, or some rows
FulltextEmpty ==
    /\ KeywordRecalled /\ gstate["keywords"] # <<>>
    /\ lastOp.value.fault \in {"none", "like_query"}
    /\ lastOp.value.fulltext_rows = {}
FulltextFound ==
    /\ KeywordRecalled /\ gstate["keywords"] # <<>>
    /\ lastOp.value.fault \in {"none", "like_query"}
    /\ lastOp.value.fulltext_rows # {}

\* the list holds the requirements ids, each once, found on the given path
ListsExactly(list, ids, match_type) ==
    /\ IdsOf(list) = ids
    /\ Len(list) = Cardinality(ids)
    /\ \A i \in 1..Len(list) : list[i]["match_type"] = match_type

\* the accepted requirements that hold a keyword as it is written
HoldKeywordLiterally ==
    {r.id : r \in {r \in db.project_requirement :
        /\ r.status \in StatusAllowed
        /\ \E k \in Supplied(gstate["keywords"]) :
              Contains(r.title, k) \/ Contains(r.description, k)}}

\* the accepted requirements with a title or a description that matches the
\* pattern made of a keyword between two "%"
MatchKeywordPattern ==
    {r.id : r \in {r \in db.project_requirement :
        /\ r.status \in StatusAllowed
        /\ \E k \in Supplied(gstate["keywords"]) :
              \/ LikeMatch(r.title, <<"%">> \o k \o <<"%">>, db.collation)
              \/ LikeMatch(r.description, <<"%">> \o k \o <<"%">>, db.collation)}}

SemanticCalled == lastOp.op = "search_projects_semantic"

\* the ids of the hits of the call, and the score of the last hit of an id
HitIdsOfCall ==
    {lastOp.value.docs[i].project_id : i \in 1..Len(lastOp.value.docs)} \ {0}
LastScore(pid) ==
    LET docs == lastOp.value.docs
        at == {i \in 1..Len(docs) : docs[i].project_id = pid}
    IN  docs[CHOOSE i \in at : \A j \in at : j <= i].score

\* the ids of the rows of the relational store with an allowed status
AcceptedIds == {r.id : r \in {r \in db.project_requirement : r.status \in StatusAllowed}}

\* C23: the semantic track returns only entities the relational store
\* returns with an allowed status: a hit whose id is missing from the store
\* or has a filtered status is dropped without an error, and the other hits
\* are still returned, each once, with the score of the hit.
C23_SemanticKeepsAcceptedHits ==
    (SemanticCalled /\ lastOp.value.fault = "none") =>
        /\ lastOp.status = "returned"
        /\ IdsOf(gstate["semantic_candidates"]) = HitIdsOfCall \cap AcceptedIds
        /\ Len(gstate["semantic_candidates"]) = Cardinality(HitIdsOfCall \cap AcceptedIds)
        /\ \A i \in 1..Len(gstate["semantic_candidates"]) :
              LET c == gstate["semantic_candidates"][i]
              IN  /\ Requirement(c["id"], c["status"]) \in db.project_requirement
                  /\ c["status"] \in StatusAllowed
                  /\ c["title"] = RequirementTitle(c["id"])
                  /\ c["score"] = LastScore(c["id"])
                  /\ c["match_type"] = "semantic"

\* the search hit a draft, an id without a row and an accepted requirement,
\* and the track returned the accepted requirement alone
C23_Witness ==
    /\ SemanticCalled /\ lastOp.value.fault = "none" /\ lastOp.status = "returned"
    /\ {10, 99, 1} \subseteq HitIdsOfCall
    /\ IdsOf(gstate["semantic_candidates"]) = {1}

\* a track was called with a failing adapter
SemanticAdapterFailed == SemanticCalled /\ lastOp.value.fault # "none"

\* C25: if an adapter call of a recall track fails (the vector store or the
\* relational connection cannot be opened, the search or the query errors),
\* the track returns an empty candidate list without raising.
C25_TrackAbsorbsAdapterFailure ==
    SemanticAdapterFailed =>
        /\ lastOp.status = "returned"
        /\ gstate["semantic_candidates"] = <<>>

\* router_node has been called, and the classifier call came to an outcome
\* (the model could be built)
Routed == lastOp.op = "router_node"
Classified == Routed /\ lastOp.value.kind # "config_error"

\* the answer of the classifier holds an opening brace with a closing brace
\* after it; what lies between them is an object or is malformed
HoldsBraces ==
    \E i, j \in 1..Len(lastOp.value.content) :
        i < j /\ lastOp.value.content[i] = "{" /\ lastOp.value.content[j] = "}"
Malformed == HoldsBraces /\ ~IsJson(SearchObject(lastOp.value.content))
HoldsMarker(marker) ==
    \E i \in 1..Len(lastOp.value.content) :
        lastOp.value.content[i] \in {marker, "intent=" \o marker}

\* the answer is neither an object nor holds a marker
Unparseable ==
    /\ lastOp.value.kind = "answer"
    /\ ~HoldsBraces
    /\ ~HoldsMarker("RECOMMEND") /\ ~HoldsMarker("PROJECT_QA")

\* C26: for every outcome of the classifier call (an answer of any form, a
\* malformed JSON object, a failed model call) the route step returns
\* without raising and sets next_step to one of the values the conditional
\* edge maps; a failed call, a malformed object and an answer that is
\* neither an object nor holds a marker resolve to chat.
C26_RouterAlwaysRoutes ==
    Classified =>
        /\ lastOp.status = "returned"
        /\ "next_step" \in DOMAIN gstate
        /\ gstate["next_step"] \in DOMAIN RouteMap
        /\ (lastOp.value.kind = "call_error" \/ Unparseable
                \/ (lastOp.value.kind = "answer" /\ Malformed))
              => gstate["next_step"] = "chat_response"

\* the classifier answered a malformed object and the turn went to chat
C26_Witness ==
    /\ Classified /\ lastOp.value.kind = "answer" /\ Malformed
    /\ lastOp.status = "returned"
    /\ gstate["next_step"] = "chat_response"

\* the answer could not be parsed as an object
NotStructured == Classified /\ lastOp.value.kind = "answer" /\ (~HoldsBraces \/ Malformed)

\* C27: whenever the answer of the classifier cannot be parsed as
\* structured data, the marker fallback is applied to its text: an answer
\* that holds the marker RECOMMEND goes to the recommend flow, and chat is
\* taken only when no marker is found.
C27_MarkerFallbackApplies ==
    NotStructured =>
        /\ HoldsMarker("RECOMMEND") => gstate["next_step"] = "recommendation_flow"
        /\ gstate["next_step"] = "chat_response"
              => ~HoldsMarker("RECOMMEND") /\ ~HoldsMarker("PROJECT_QA")

\* the steps of the master graph that answer the user
AnsweringSteps == {"chat_node", "project_qa_node", "summarize_recommendation"}

\* a run of the master graph has ended and no step other than an answering
\* step has raised
TurnEnded ==
    /\ grun.graph = "master" /\ grun.status \in {"done", "error"}
    /\ \A s \in DOMAIN tasks \ AnsweringSteps : tasks[s].status # "raised"

\* C30: every turn of the master graph that ends without a configuration
\* error ends with a new assistant message in the state, also when the
\* model call of chat_node, project_qa_node or summarize_recommendation
\* fails: no error of these steps ends the run.
C30_TurnEndsWithAnswer ==
    TurnEnded =>
        /\ grun.status = "done"
        /\ \E i \in 1..Len(gstate["messages"]) : gstate["messages"][i].type = "ai"

\* the three ways through the master graph
MasterChains ==
    {<<"router", "chat_node">>,
     <<"router", "project_qa_node">>,
     <<"router", "prep_recommendation", "recommendation_worker", "summarize_recommendation">>}

PublisherChains ==
    {<<"router", "chat_node">>,
     <<"router", "publisher_flow">>,
     <<"router", "publisher_flow", "vector_sync">>,
     <<"router", "file_parsing_flow", "publisher_flow">>,
     <<"router", "file_parsing_flow", "publisher_flow", "vector_sync">>}

InPublisher == grun.graph = "publisher"
Applied(step) == Started(step) /\ tasks[step].status = "applied"

\* C29, as the specification states it: in the publisher graph a run routed
\* to file_parsing_flow continues to publisher_flow, and publisher_flow is
\* followed by the end: the run is done when it is merged and no step runs
\* after it.
C29_BridgeGoesToEnd ==
    InPublisher =>
        /\ Applied("file_parsing_flow") => Started("publisher_flow")
        /\ Applied("publisher_flow") => grun.status = "done"
        /\ ~Started("vector_sync")

\* C29, amended: in the publisher graph a run routed to file_parsing_flow
\* always continues to publisher_flow. publisher_flow is followed by the end
\* when the bridge recorded no requirement id, and by vector_sync when it
\* recorded one; vector_sync is followed by the end. Each step runs once,
\* and no other step runs after publisher_flow.
C29_BridgeGoesToSyncOrEnd ==
    InPublisher =>
        /\ \E chain \in PublisherChains : \E n \in 1..Len(chain) :
              /\ DOMAIN tasks = {chain[i] : i \in 1..n}
              /\ \A i \in 1..n : runs[chain[i]] = 1
              /\ \A i \in 1..(n - 1) : tasks[chain[i]].status = "applied"
        /\ Applied("file_parsing_flow") => Started("publisher_flow")
        /\ Applied("publisher_flow") =>
              /\ Started("vector_sync") <=> gstate["final_requirement_id"] # 0
              /\ ~Started("vector_sync") => grun.status = "done"
        /\ Applied("vector_sync") => grun.status = "done"

\* a run went through file parsing and the bridge, the bridge recorded a
\* requirement id, and vector_sync ran before the run was done
C29_Witness ==
    /\ InPublisher /\ grun.status = "done"
    /\ DOMAIN tasks = {"router", "file_parsing_flow", "publisher_flow", "vector_sync"}
    /\ gstate["final_requirement_id"] # 0

\* the modifier has returned; what the request and the config held
Resolved == lastOp.op = "per_req_config_modifier"
HeaderGiven ==
    IF Truthy(DictGet(gstate.request.headers, "x-thread-id"))
    THEN gstate.request.headers["x-thread-id"]
    ELSE DictGet(gstate.request.headers, "thread-id")
QueryGiven == DictGet(gstate.request.query_params, "thread_id")
ConfigHeld == DictGetD(lastOp.value, "configurable", [k \in {} |-> None])

\* C37: the thread id of a request is resolved with the precedence request
\* header (x-thread-id, then thread-id), then query parameter, then the
\* default the transport injected: a header value overrides a query
\* parameter and a thread id already in the config, a query parameter
\* overrides the config and the injected default, and the injected default
\* is used only when neither a header nor a query parameter is given (and
\* the config holds no thread id). An empty value counts as not given. No
\* other entry of the config changes.
C37_ThreadIdPrecedence ==
    Resolved =>
        LET resolved == gstate.config["configurable"]
        IN  /\ DOMAIN gstate.config = DOMAIN lastOp.value \cup {"configurable"}
            /\ \A k \in DOMAIN ConfigHeld \ {"thread_id"} :
                  k \in DOMAIN resolved /\ resolved[k] = ConfigHeld[k]
            /\ DOMAIN resolved \subseteq DOMAIN ConfigHeld \cup {"thread_id"}
            /\ IF Truthy(HeaderGiven) THEN resolved["thread_id"] = HeaderGiven
               ELSE IF Truthy(QueryGiven) THEN resolved["thread_id"] = QueryGiven
               ELSE IF "thread_id" \in DOMAIN ConfigHeld
                    THEN resolved["thread_id"] = ConfigHeld["thread_id"]
               ELSE IF "thread_id" \in DOMAIN gstate.request.state
                    THEN resolved["thread_id"] = gstate.request.state["thread_id"]
               ELSE "thread_id" \notin DOMAIN resolved

\* a request came with a header, a query parameter, an injected default and
\* a thread id in its config, and the header was taken
C37_Witness ==
    /\ Resolved
    /\ Truthy(HeaderGiven) /\ Truthy(QueryGiven)
    /\ "thread_id" \in DOMAIN ConfigHeld /\ "thread_id" \in DOMAIN gstate.request.state
    /\ gstate.config["configurable"]["thread_id"] = HeaderGiven
    /\ HeaderGiven # QueryGiven

\* project_qa_node has built its context
QaRetrieved == lastOp.op = "project_qa_node" /\ lastOp.status = "returned"

\* the number the target id stands for
TargetNumber ==
    IF "int" \in DOMAIN gstate["target_project_id"] THEN gstate["target_project_id"].int ELSE 1

\* the chunks the detailed-document search returned for the target, in order
RECURSIVE TextsOf(_, _)
TextsOf(docs, n) ==
    IF docs = <<>> THEN <<>>
    ELSE (IF Head(docs).project_id = PyInt(n) THEN <<Head(docs).page_content>> ELSE <<>>)
             \o TextsOf(Tail(docs), n)
DetailedChunks ==
    IF lastOp.value.raw_fault = "none" THEN TextsOf(lastOp.value.raw, TargetNumber) ELSE <<>>

\* C34: in the project Q&A step the summary-embedding search is invoked if
\* and only if the detailed-document search returned no chunk for the
\* target entity; when it returned at least one chunk for the target, the
\* answer context consists of those chunks with source 'Detailed Documents'.
C34_SummaryOnlyWhenNoDetail ==
    QaRetrieved =>
        /\ gstate["context"].summary_searched <=> DetailedChunks = <<>>
        /\ DetailedChunks # <<>> =>
              /\ gstate["context"].chunks_list = DetailedChunks
              /\ gstate["context"].source = "Detailed Documents"

\* the user's message of the run explicitly confirms the write
UserConfirmed ==
    \E i \in 1..Len(gstate.messages) :
        gstate.messages[i].type = "human" /\ gstate.messages[i].confirms

\* C35: in the publish sub-flow the write of a requirement is executed in a
\* run only after the user has explicitly confirmed it in the conversation:
\* no sequence of model outputs makes the executor commit a write without a
\* preceding user confirmation.
C35_WriteOnlyAfterConfirmation ==
    ("writes" \in DOMAIN gstate /\ gstate.writes > 0) => UserConfirmed

UnansweredCalls ==
    {<<i, k>> \in (1..Len(gstate.messages)) \X (1..2) :
        /\ gstate.messages[i].type = "ai"
        /\ k <= Len(gstate.messages[i].tool_calls)
        /\ ~\E j \in (i + 1)..Len(gstate.messages) :
              /\ gstate.messages[j].type = "tool"
              /\ gstate.messages[j].tool_call_id = gstate.messages[i].tool_calls[k].id}

\* C39: in the publish sub-flow every tool call emitted by the chat step is
\* answered by a tool message with the same call id before the chat step
\* runs again, also when one assistant message carries both a
\* recommend_tags call and a save_requirement call.
C39_EveryCallAnswered ==
    gstate.node = "chat" => UnansweredCalls = {}

\* the router of the running turn has routed: its update is in the state
RouterDone ==
    /\ grun.graph = "publisher"
    /\ "router" \in DOMAIN tasks
    /\ tasks["router"].status = "applied"

\* the place of the user message of the running turn, and what it uploads
LastHumanAt ==
    CHOOSE i \in 1..Len(gstate["messages"]) :
        /\ gstate["messages"][i].type = "human"
        /\ \A j \in (i + 1)..Len(gstate["messages"]) : gstate["messages"][j].type # "human"
TurnFile == gstate["messages"][LastHumanAt].content.file

\* an earlier turn of the thread parsed a file successfully
ParsedInEarlierTurn ==
    \E i \in 1..(LastHumanAt - 1) :
        /\ gstate["messages"][i].type = "ai"
        /\ gstate["messages"][i].content = <<"parsed">>

\* C40: the router sends a turn to file parsing only when the turn uploads
\* a new file or a stored file has not been parsed; once a file has been
\* parsed successfully, no later turn without a new upload is routed to
\* file_parsing_flow, also after the requirement was saved and vector_sync
\* cleared the parsed data.
C40_NoSecondParse ==
    (RouterDone /\ TurnFile = None /\ ParsedInEarlierTurn)
        => gstate["next_step"] # "file_parsing_flow"

\* an earlier turn of the thread has gone through publisher_flow: the state
\* holds what the bridge wrote, and the bridge of the running turn has not
\* written yet (the route and the start of chat_node come before that)
ThroughPublisherFlowEarlier ==
    /\ grun.graph = "publisher"
    /\ DictGetD(gstate, "publisher_state", NoneObj) # NoneObj
    /\ ~("publisher_flow" \in DOMAIN tasks /\ tasks["publisher_flow"].status = "applied")

Messages == DictGetD(gstate, "messages", <<>>)
IsPrefix(a, b) == Len(a) <= Len(b) /\ \A i \in 1..Len(a) : a[i] = b[i]

\* C31: the messages sequence of the conversation state is append-only:
\* after any step of any run, and across turns of a thread, the sequence
\* before the step is a prefix of the sequence after it; no step removes,
\* replaces or reorders an earlier entry.
C31_MessagesAppendOnly ==
    [][IsPrefix(Messages, Messages')]_vars

\* the router of the running turn of the master graph has routed
MasterRouterDone ==
    /\ grun.graph = "master"
    /\ "router" \in DOMAIN tasks
    /\ tasks["router"].status = "applied"

\* the short-term profile of the thread
Profile == DictGetD(gstate, "user_profile", NoneObj)

\* C32: the short-term profile survives across the turns of a thread: the
\* route, chat and project Q&A steps (and the start of a turn) leave it
\* unchanged; it changes only when a recommendation completes, where the
\* update of the summarize step replaces it wholesale with the new profile.
C32_ProfileFrame ==
    [][Profile' # Profile =>
          /\ Barrier(tasks)
          /\ order = <<"summarize_recommendation">>
          /\ "user_profile" \in DOMAIN tasks["summarize_recommendation"].update
          /\ Profile' = tasks["summarize_recommendation"].update["user_profile"]]_vars

\* C32 witness: in the second turn of a thread the recommendation has
\* replaced the profile of the first turn by a different one
C32_Witness ==
    /\ grun.graph = "master"
    /\ HumanTurns(gstate) = 2
    /\ "summarize_recommendation" \in DOMAIN tasks
    /\ tasks["summarize_recommendation"].status = "applied"
    /\ Profile = [interest_tags |-> <<1>>]
    /\ Len(gstate["messages"]) = 6

\* C33: the target entity id is cleared or replaced by every routing
\* decision: after a turn that the route step sends to chat or recommend,
\* the state no longer holds the entity id set by an earlier project Q&A
\* turn.
C33_TargetClearedByRoute ==
    (MasterRouterDone /\ gstate["next_step"] \in {"chat_response", "recommendation_flow"})
        => DictGetD(gstate, "target_project_id", 0) = 0

====
